---- MODULE Spec2Model ----
(***************************************************************************)
(* A state-machine model of the cycle_ptr core (include/cycle_ptr.h):      *)
(* the coloured reference counter of base_control, the generation with its *)
(* mark-sweep collector (gc_, gc_mark_, gc_sweep_, gc_phase2_mark_,        *)
(* gc_phase2_sweep_), the ordering and merge protocol (fix_ordering,       *)
(* merge_, merge0_), vertex::reset, and the hazard-pointer protocol.       *)
(*                                                                         *)
(* Every thread runs a stack of frames; the top frame is the function the  *)
(* thread is executing, its field pc the next statement.  One action is    *)
(* one atomic access to shared memory (or one mutex operation) together    *)
(* with the thread-local computation around it.  A compare_exchange loop   *)
(* is modelled by its successful iteration.  Assertions are compiled out   *)
(* (NDEBUG); the two places where the release build would go on to use an  *)
(* unlinked list node are recorded in ub and stop the thread.              *)
(***************************************************************************)
EXTENDS Integers, Sequences, FiniteSets, TLC

\* ------------------------------------------------------------------ bounds
NB == 3            \* control blocks
NV == 2            \* vertices (member pointers) owned by each block
NT == 2            \* threads
NO == 2            \* objects behind intrusive pointers
NSlots == 2        \* hazard slots (ptr_set)
HazOps == 2        \* hazard pointer operations per thread of SpecHazard
RequestOps == 1     \* pointer operations of the thread of FairRequest
WeakOps == 2        \* pointer operations of the first thread of SpecWeak
ReleaseOps == 1     \* pointer operations of the thread of SpecRelease
MaxCalls == 2       \* calls of one gc_operation in a row
MaxAddr == 4         \* bytes of memory in SpecPub
AllocOps == 2        \* operations of each thread of SpecAlloc
DtorOps == 3        \* pointer operations of the thread of SpecDtor, destructors included
MaxOps == 3        \* pointer operations of the thread of SpecSeq
OrderOps == 2      \* pointer operations of the first thread of SpecOrder
GcOps == 2         \* pointer operations of the first thread of SpecGC
DelayOps == 2      \* pointer operations of the first thread of SpecDelay
MaxGap == 2        \* allocations from one block to the next, at most
MaxRefs == 2       \* strong references one thread holds to one block

Blocks == 1..NB
Verts == 1..NV
Threads == 1..NT
Objs == 1..NO
Slots == 1..NSlots
Gens == 1..NB      \* generation g is the one created for block g
NULL == 0

\* ------------------------------------------------- colour and word encoding
red == 0
black == 1
grey == 2
white == 3
color_shift == 2
color_mask == (2 ^ color_shift) - 1
\* Width of the reference word in the model (uintptr_t scaled down).
WordBits == 6
WordMod == 2 ^ WordBits

get_refs(refcounter) == refcounter \div (2 ^ color_shift)
get_color(refcounter) == refcounter % (2 ^ color_shift)
make_refcounter(nrefs, c) == ((nrefs * (2 ^ color_shift)) + c) % WordMod
color_invariant(refcounter) ==
    /\ (get_refs(refcounter) > 0
          => get_color(refcounter) = white \/ get_color(refcounter) = grey)
    /\ (get_color(refcounter) = black => get_refs(refcounter) = 0)

\* ----------------------------------------------------------- generations
moveable_seq == 1
new_seq_state == 1002
\* a destination whose moveable bit is never cleared
KeepMoveable(s) == s
\* x & ~moveable_seq
ClearMoveable(s) == s - (s % 2)
\* a sequence number that may never be lowered
NeverMoveable(s) == FALSE
\* a test that takes the moveable bit of every sequence number as set
AlwaysMoveable(s) == TRUE
IsMoveable(s) == s % 2 = moveable_seq

VARIABLES
    store_refs_,        \* block -> strong word (count, colour)
    generation_,        \* block -> generation
    seq_,               \* generation -> sequence number
    controls_,          \* generation -> list of blocks
    gc_flag_,           \* generation -> GC pending
    mtx_,               \* generation -> thread holding mtx_ exclusively, or 0
    merge_mtx_,         \* generation -> [ex: thread or 0, sh: bag of threads]
    red_promotion_mtx_, \* generation -> [ex: thread or 0, sh: set of threads]
    dst_,               \* block -> vertex -> destination block or NULL
    destroyed,          \* block -> number of clear_data_ calls
    ext,                \* thread -> block -> strong references held
    stk,                \* thread -> stack of frames, top first
    ops,                \* thread -> operations it may still start
    ub,                 \* "" or the undefined step that was reached
    delay_gc_,          \* [fn: a delay hook is installed,
                        \*  held: generations whose gc_operation the hook holds,
                        \*  throws: the installed hook may throw]
    ptr,                \* hazard: the atomic source pointer, an object or NULL
    ptr_set_impl_,      \* hazard: slot -> published intent, an object or NULL
    refcnt,             \* hazard: object -> intrusive reference count
    deallocated,        \* hazard: object -> its count reached zero
    owned,              \* hazard: thread -> object -> references it holds
    alloc_seq_,         \* hazard: allocate_'s counter, modulo the slots
    under_construction, \* block -> the payload constructor has not completed
    edges_,             \* block -> number of vertices linked in its edges_
    heap,               \* block -> "none", "live" or "freed" control block
    published,          \* publisher map: set of [addr, len, bc]
    looked,             \* the last publisher lookup: [addr, len, bc or Miss]
    thrown              \* thread -> the exception it last saw raised, or ""

vars == <<store_refs_, generation_, seq_, controls_, gc_flag_, mtx_, merge_mtx_,
          red_promotion_mtx_, dst_, destroyed, ext, stk, ops, ub, delay_gc_,
          ptr, ptr_set_impl_, refcnt, deallocated, owned, alloc_seq_,
          under_construction, edges_, heap, published, looked, thrown>>
\* the variables of the hazard pointers, and those of the generations
\* the variables of the allocation entry point and of the publisher
alloc_vars == <<under_construction, edges_, heap, published, looked, thrown>>
hazard_vars == <<ptr, ptr_set_impl_, refcnt, deallocated, owned, alloc_seq_>>
cycle_vars == <<store_refs_, generation_, seq_, controls_, gc_flag_, mtx_, merge_mtx_,
                red_promotion_mtx_, dst_, destroyed, ext, delay_gc_>>


\* ------------------------------------------------------------ list helpers
InList(L, x) == \E k \in 1..Len(L) : L[k] = x
IndexOf(L, x) == CHOOSE k \in 1..Len(L) : L[k] = x
Remove(L, p) == SubSeq(L, 1, p - 1) \o SubSeq(L, p + 1, Len(L))
InsertBefore(L, p, x) == SubSeq(L, 1, p - 1) \o <<x>> \o SubSeq(L, p, Len(L))

\* controls_.splice(wavefront_end, controls_, i++) of gc_mark_ and
\* gc_phase2_mark_: the element at i joins the wavefront [1, w).
MarkSplice(L, i, w) ==
    IF i = w THEN L ELSE InsertBefore(Remove(L, i), w, L[i])

\* The wavefront insertion of gc_sweep_ and gc_phase2_sweep_: the element at
\* p is moved to just before wavefront_end (index w); i is wavefront_begin.
\* Iterators follow their elements.
SweepSplice(L, i, w, p) ==
    IF p = w THEN [L |-> L, i |-> i, w |-> w + 1]
    ELSE IF p > w THEN [L |-> InsertBefore(Remove(L, p), w, L[p]), i |-> i, w |-> w + 1]
    ELSE [L |-> InsertBefore(Remove(L, p), w - 1, L[p]),
          i |-> IF p < i THEN i - 1 ELSE IF p = i THEN w - 1 ELSE i,
          w |-> w]

\* ------------------------------------------------------------------ frames
Top(t) == Head(stk[t])
Running(t, fn) == ub = "" /\ stk[t] # <<>> /\ Head(stk[t]).fn = fn
\* the running function goes on as frame f
Goto(t, f) == stk' = [stk EXCEPT ![t] = <<f>> \o Tail(@)]
\* the running function goes on as frame f after the call of callee returns
Call(t, f, callee) == stk' = [stk EXCEPT ![t] = <<callee, f>> \o Tail(@)]
Return(t) == stk' = [stk EXCEPT ![t] = Tail(@)]

gcFrame(b) == [fn |-> "base_control::gc", pc |-> "load", b |-> b, g |-> NULL, hook |-> ""]
gc_Frame(g) == [fn |-> "gc_", pc |-> "lock", g |-> g, i |-> 1, w |-> 1, e |-> 1, l |-> <<>>]

\* base_control::release(skip_gc): the fetch_sub, and the collection it starts
fetch_sub(w) == (w - (2 ^ color_shift)) % WordMod
\* a copy that forgets to count itself
NoAdd(w) == w
fetch_add(w) == (w + (2 ^ color_shift)) % WordMod
ReleaseNeedsGc(old, skip_gc) == ~skip_gc /\ get_refs(old) = 1


\* ------------------------------------------------------------ generation::gc_
with_color(w, c) == make_refcounter(get_refs(w), c)

\* where gc_ goes when gc_sweep_ is at the head of its loop (f.i is
\* wavefront_begin, f.w wavefront_end)
AfterSweep(f, L) ==
    IF f.i # f.w THEN [f EXCEPT !.e = 0]
    ELSE IF f.i > Len(L) THEN [f EXCEPT !.pc = "return"]
    ELSE [f EXCEPT !.pc = "phase2_lock"]
\* ... when gc_mark_ is at the head of its loop
AfterMark(f, L) ==
    IF f.i <= Len(L) THEN f
    ELSE IF f.w > Len(L) THEN [f EXCEPT !.pc = "return"]
    ELSE AfterSweep([f EXCEPT !.pc = "sweep", !.i = 1], L)
\* ... when gc_phase2_sweep_ is at the head of its loop
AfterPhase2Sweep(f, L) ==
    IF f.i # f.w THEN [f EXCEPT !.e = 0]
    ELSE IF f.w > Len(L) THEN [f EXCEPT !.pc = "return"]
    ELSE [f EXCEPT !.pc = "phase3", !.i = f.w]
\* ... when gc_phase2_mark_ is at the head of its loop
AfterPhase2Mark(f, L) ==
    IF f.i <= Len(L) THEN f
    ELSE IF f.w > Len(L) THEN [f EXCEPT !.pc = "return"]
    ELSE AfterPhase2Sweep([f EXCEPT !.pc = "phase2_sweep", !.i = 1], L)

\* an early return of gc_ that keeps mtx_ locked
GcGoOnLocked(t, f, red_locked) ==
    IF f.pc = "return"
    THEN /\ red_promotion_mtx_' =
               IF red_locked THEN [red_promotion_mtx_ EXCEPT ![f.g].ex = 0]
               ELSE red_promotion_mtx_
         /\ Return(t)
         /\ UNCHANGED mtx_
    ELSE /\ Goto(t, f)
         /\ UNCHANGED <<mtx_, red_promotion_mtx_>>

\* the lock scope of gc_ ends: either by a return or after phase 3
GcGoOn(t, f, red_locked) ==
    IF f.pc = "return"
    THEN /\ mtx_' = [mtx_ EXCEPT ![f.g] = 0]
         /\ red_promotion_mtx_' =
               IF red_locked THEN [red_promotion_mtx_ EXCEPT ![f.g].ex = 0]
               ELSE red_promotion_mtx_
         /\ Return(t)
    ELSE /\ Goto(t, f)
         /\ UNCHANGED <<mtx_, red_promotion_mtx_>>

gc_lock(t) ==
    /\ Running(t, "gc_") /\ Top(t).pc = "lock"
    /\ mtx_[Top(t).g] = 0
    /\ gc_flag_' = [gc_flag_ EXCEPT ![Top(t).g] = FALSE]
    /\ IF controls_[Top(t).g] = <<>>
       THEN Return(t) /\ UNCHANGED mtx_
       ELSE /\ mtx_' = [mtx_ EXCEPT ![Top(t).g] = t]
            /\ Goto(t, [Top(t) EXCEPT !.pc = "mark", !.i = 1, !.w = 1])
    /\ UNCHANGED <<store_refs_, generation_, seq_, controls_, merge_mtx_,
                   red_promotion_mtx_, dst_, destroyed, ext, ops, ub, delay_gc_, hazard_vars, alloc_vars>>

\* a mark that takes every block for referenced
MarkReferenced(old) == grey
\* the colour gc_mark_ gives to a block whose word was old (and not RED)
mark_color(old) == IF get_refs(old) = 0 THEN red ELSE grey

gc_mark_(t) ==
    /\ Running(t, "gc_") /\ Top(t).pc = "mark"
    /\ LET f == Top(t)
           L == controls_[f.g]
           b == L[f.i]
           old == store_refs_[b]
           isgrey == get_color(old) # red /\ mark_color(old) = grey
           L2 == IF isgrey THEN MarkSplice(L, f.i, f.w) ELSE L
           f2 == [f EXCEPT !.i = f.i + 1, !.w = IF isgrey THEN f.w + 1 ELSE f.w]
       IN /\ store_refs_' = [store_refs_ EXCEPT ![b] =
                 IF get_color(old) = red THEN old
                 ELSE with_color(old, mark_color(old))]
          /\ controls_' = [controls_ EXCEPT ![f.g] = L2]
          /\ GcGoOn(t, AfterMark(f2, L2), FALSE)
    /\ UNCHANGED <<generation_, seq_, gc_flag_, merge_mtx_,
                   dst_, destroyed, ext, ops, ub, delay_gc_, hazard_vars, alloc_vars>>

gc_sweep_(t) ==
    /\ Running(t, "gc_") /\ Top(t).pc = "sweep"
    /\ LET f == Top(t)
           L == controls_[f.g]
           b == L[f.i]
       IN IF f.e = 0
          THEN \* promote grey to white
               /\ store_refs_' = [store_refs_ EXCEPT ![b] = with_color(@, white)]
               /\ Goto(t, [f EXCEPT !.e = 1])
               /\ UNCHANGED <<controls_, mtx_, red_promotion_mtx_, ub>>
          ELSE LET d == dst_[b][f.e]
                   fe == IF f.e < NV THEN [f EXCEPT !.e = f.e + 1]
                         ELSE [f EXCEPT !.i = f.i + 1]
               IN IF d = NULL \/ generation_[d] # f.g \/ get_color(store_refs_[d]) = white
                  THEN /\ GcGoOn(t, IF f.e < NV THEN fe ELSE AfterSweep(fe, L), FALSE)
                       /\ UNCHANGED <<store_refs_, controls_, ub>>
                  ELSE IF ~InList(L, d)
                  THEN /\ ub' = "gc_sweep_: iterator_to of an unlinked control"
                       /\ UNCHANGED <<store_refs_, controls_, mtx_, red_promotion_mtx_, stk>>
                  ELSE LET sp == SweepSplice(L, f.i, f.w, IndexOf(L, d))
                           fs == [fe EXCEPT !.w = sp.w,
                                            !.i = IF f.e < NV THEN sp.i ELSE sp.i + 1]
                       IN /\ store_refs_' = [store_refs_ EXCEPT ![d] =
                                 IF @ = make_refcounter(0, red)
                                 THEN make_refcounter(0, grey) ELSE @]
                          /\ controls_' = [controls_ EXCEPT ![f.g] = sp.L]
                          /\ GcGoOn(t, IF f.e < NV THEN fs ELSE AfterSweep(fs, sp.L), FALSE)
                          /\ UNCHANGED ub
    /\ UNCHANGED <<generation_, seq_, gc_flag_, merge_mtx_,
                   dst_, destroyed, ext, ops, delay_gc_, hazard_vars, alloc_vars>>

gc_phase2_lock(t) ==
    /\ Running(t, "gc_") /\ Top(t).pc = "phase2_lock"
    /\ red_promotion_mtx_[Top(t).g].ex = 0
    /\ red_promotion_mtx_[Top(t).g].sh = {}
    /\ red_promotion_mtx_' = [red_promotion_mtx_ EXCEPT ![Top(t).g].ex = t]
    /\ Goto(t, [Top(t) EXCEPT !.pc = "phase2_mark"])
    /\ UNCHANGED <<store_refs_, generation_, seq_, controls_, gc_flag_, mtx_,
                   merge_mtx_, dst_, destroyed, ext, ops, ub, delay_gc_, hazard_vars, alloc_vars>>

gc_phase2_mark_(t) ==
    /\ Running(t, "gc_") /\ Top(t).pc = "phase2_mark"
    /\ LET f == Top(t)
           L == controls_[f.g]
           isgrey == get_color(store_refs_[L[f.i]]) # red
           L2 == IF isgrey THEN MarkSplice(L, f.i, f.w) ELSE L
           f2 == [f EXCEPT !.i = f.i + 1, !.w = IF isgrey THEN f.w + 1 ELSE f.w]
       IN /\ controls_' = [controls_ EXCEPT ![f.g] = L2]
          /\ GcGoOn(t, AfterPhase2Mark(f2, L2), TRUE)
    /\ UNCHANGED <<store_refs_, generation_, seq_, gc_flag_, merge_mtx_,
                   dst_, destroyed, ext, ops, ub, delay_gc_, hazard_vars, alloc_vars>>


gc_phase2_sweep_(t) ==
    /\ Running(t, "gc_") /\ Top(t).pc = "phase2_sweep"
    /\ LET f == Top(t)
           L == controls_[f.g]
           b == L[f.i]
       IN IF f.e = 0
          THEN \* change bc colour to white; white was processed in phase 1
               IF get_color(store_refs_[b]) = white
               THEN /\ GcGoOn(t, AfterPhase2Sweep([f EXCEPT !.i = f.i + 1], L), TRUE)
                    /\ UNCHANGED <<store_refs_, controls_>>
               ELSE /\ store_refs_' = [store_refs_ EXCEPT ![b] = with_color(@, white)]
                    /\ Goto(t, [f EXCEPT !.e = 1])
                    /\ UNCHANGED <<controls_, mtx_, red_promotion_mtx_>>
          ELSE LET d == dst_[b][f.e]
                   fe == IF f.e < NV THEN [f EXCEPT !.e = f.e + 1]
                         ELSE [f EXCEPT !.i = f.i + 1]
               IN IF d = NULL \/ generation_[d] # f.g \/ get_color(store_refs_[d]) # red
                  THEN /\ GcGoOn(t, IF f.e < NV THEN fe ELSE AfterPhase2Sweep(fe, L), TRUE)
                       /\ UNCHANGED <<store_refs_, controls_>>
                  ELSE LET sp == SweepSplice(L, f.i, f.w, IndexOf(L, d))
                           fs == [fe EXCEPT !.w = sp.w,
                                            !.i = IF f.e < NV THEN sp.i ELSE sp.i + 1]
                       IN /\ store_refs_' = [store_refs_ EXCEPT ![d] = with_color(@, grey)]
                          /\ controls_' = [controls_ EXCEPT ![f.g] = sp.L]
                          /\ GcGoOn(t, IF f.e < NV THEN fs ELSE AfterPhase2Sweep(fs, sp.L), TRUE)
    /\ UNCHANGED <<generation_, seq_, gc_flag_, merge_mtx_,
                   dst_, destroyed, ext, ops, ub, delay_gc_, hazard_vars, alloc_vars>>

\* a phase 3 that leaves the unreachable blocks in the list of the generation
gc_phase3_unspliced(t) ==
    /\ Running(t, "gc_") /\ Top(t).pc = "phase3"
    /\ LET f == Top(t)
           L == controls_[f.g]
       IN /\ store_refs_' = [store_refs_ EXCEPT ![L[f.i]] = make_refcounter(0, black)]
          /\ IF f.i < Len(L)
             THEN /\ Goto(t, [f EXCEPT !.i = f.i + 1])
                  /\ UNCHANGED <<controls_, mtx_, red_promotion_mtx_>>
             ELSE /\ UNCHANGED controls_
                  /\ mtx_' = [mtx_ EXCEPT ![f.g] = 0]
                  /\ red_promotion_mtx_' = [red_promotion_mtx_ EXCEPT ![f.g].ex = 0]
                  /\ Goto(t, [f EXCEPT !.pc = "destruct", !.i = 1, !.e = 1,
                                       !.l = SubSeq(L, f.w, Len(L))])
    /\ UNCHANGED <<generation_, seq_, gc_flag_, merge_mtx_,
                   dst_, destroyed, ext, ops, ub, delay_gc_, hazard_vars, alloc_vars>>

\* a phase 3 whose lock scope extends over the destruction phase
gc_phase3_locked(t) ==
    /\ Running(t, "gc_") /\ Top(t).pc = "phase3"
    /\ LET f == Top(t)
           L == controls_[f.g]
       IN /\ store_refs_' = [store_refs_ EXCEPT ![L[f.i]] = make_refcounter(0, black)]
          /\ IF f.i < Len(L)
             THEN /\ Goto(t, [f EXCEPT !.i = f.i + 1])
                  /\ UNCHANGED controls_
             ELSE /\ controls_' = [controls_ EXCEPT ![f.g] = SubSeq(L, 1, f.w - 1)]
                  /\ Goto(t, [f EXCEPT !.pc = "destruct", !.i = 1, !.e = 1,
                                       !.l = SubSeq(L, f.w, Len(L))])
          /\ UNCHANGED <<mtx_, red_promotion_mtx_>>
    /\ UNCHANGED <<generation_, seq_, gc_flag_, merge_mtx_,
                   dst_, destroyed, ext, ops, ub, delay_gc_, hazard_vars, alloc_vars>>

\* Phase 3: every block of [reachable_end, end) is exchanged to (0, BLACK);
\* after the last one the range is spliced to the unreachable list and the
\* lock scope ends.
gc_phase3(t) ==
    /\ Running(t, "gc_") /\ Top(t).pc = "phase3"
    /\ LET f == Top(t)
           L == controls_[f.g]
       IN /\ store_refs_' = [store_refs_ EXCEPT ![L[f.i]] = make_refcounter(0, black)]
          /\ IF f.i < Len(L)
             THEN /\ Goto(t, [f EXCEPT !.i = f.i + 1])
                  /\ UNCHANGED <<controls_, mtx_, red_promotion_mtx_>>
             ELSE /\ controls_' = [controls_ EXCEPT ![f.g] = SubSeq(L, 1, f.w - 1)]
                  /\ mtx_' = [mtx_ EXCEPT ![f.g] = 0]
                  /\ red_promotion_mtx_' = [red_promotion_mtx_ EXCEPT ![f.g].ex = 0]
                  /\ Goto(t, [f EXCEPT !.pc = "destruct", !.i = 1, !.e = 1,
                                       !.l = SubSeq(L, f.w, Len(L))])
    /\ UNCHANGED <<generation_, seq_, gc_flag_, merge_mtx_,
                   dst_, destroyed, ext, ops, ub, delay_gc_, hazard_vars, alloc_vars>>

\* a destruction phase that releases no destination
ReleasesNoEdge(d, g) == FALSE
\* the destination d of a cleared edge holds a counted reference when it is
\* not of the collected generation g
ReleasesEdge(d, g) == d # NULL /\ generation_[d] # g

\* Destruction phase, one edge of one unreachable block: the edge is
\* exchanged to null; a destination of another generation is released.
gc_destruct(t) ==
    /\ Running(t, "gc_") /\ Top(t).pc = "destruct"
    /\ LET f == Top(t)
           b == f.l[f.i]
           d == dst_[b][f.e]
           f2 == IF f.e < NV THEN [f EXCEPT !.e = f.e + 1]
                 ELSE IF f.i < Len(f.l) THEN [f EXCEPT !.i = f.i + 1, !.e = 1]
                 ELSE [f EXCEPT !.pc = "clear", !.i = 1]
       IN /\ dst_' = [dst_ EXCEPT ![b][f.e] = NULL]
          /\ IF ReleasesEdge(d, f.g)
             THEN /\ store_refs_' = [store_refs_ EXCEPT ![d] = fetch_sub(@)]
                  /\ IF ReleaseNeedsGc(store_refs_[d], FALSE)
                     THEN Call(t, f2, gcFrame(d))
                     ELSE Goto(t, f2)
             ELSE /\ Goto(t, f2)
                  /\ UNCHANGED store_refs_
    /\ UNCHANGED <<generation_, seq_, controls_, gc_flag_, mtx_, merge_mtx_,
                   red_promotion_mtx_, destroyed, ext, ops, ub, delay_gc_, hazard_vars, alloc_vars>>

\* pop_front of the unreachable list and clear_data_: the payload destructor
gc_clear(t) ==
    /\ Running(t, "gc_") /\ Top(t).pc = "clear"
    /\ LET f == Top(t)
       IN /\ destroyed' = [destroyed EXCEPT ![f.l[f.i]] = @ + 1]
          /\ IF f.i < Len(f.l)
             THEN Goto(t, [f EXCEPT !.i = f.i + 1])
             ELSE Return(t)
    /\ UNCHANGED <<store_refs_, generation_, seq_, controls_, gc_flag_, mtx_,
                   merge_mtx_, red_promotion_mtx_, dst_, ext, ops, ub, delay_gc_, hazard_vars, alloc_vars>>

\* ------------------------------------- base_control::gc and generation::gc
\* a collection that counts as handed over whatever the hook did
AlwaysDelayed(hook) == TRUE
\* the value maybe_delay_gc_ returns: true only when the hook returned
Delayed(hook) == hook = "returned"
\* if (!maybe_delay_gc_(*this)) gc_(), in frame f whose hook did as told
GcUnlessDelayed(t, f, hook) ==
    IF Delayed(hook)
    THEN Goto(t, [f EXCEPT !.pc = "while", !.hook = hook])
    ELSE Call(t, [f EXCEPT !.pc = "while", !.hook = hook], gc_Frame(f.g))
\* maybe_delay_gc_ in generation::gc, called by frame f: an installed hook
\* is handed the gc_operation of the generation and returns, or throws
\* having kept the gc_operation or not; without a hook, and after a throw,
\* gc_ runs
maybe_delay_gc_(t, f) ==
    \/ /\ ~delay_gc_.fn
       /\ GcUnlessDelayed(t, f, "unset")
       /\ UNCHANGED delay_gc_
    \/ /\ delay_gc_.fn
       /\ delay_gc_' = [delay_gc_ EXCEPT !.held = @ \cup {f.g}]
       /\ GcUnlessDelayed(t, f, "returned")
    \/ /\ delay_gc_.fn /\ delay_gc_.throws
       /\ \E kept \in BOOLEAN :
             delay_gc_' = [delay_gc_ EXCEPT !.held = IF kept THEN @ \cup {f.g} ELSE @]
       /\ GcUnlessDelayed(t, f, "threw")

NeverPending(g) == FALSE
AlwaysPending(g) == TRUE
\* the value gc_flag_.test_and_set of generation g returns
test_and_set(g) == gc_flag_[g]
base_control_gc(t) ==
    /\ Running(t, "base_control::gc")
    /\ LET f == Top(t)
       IN CASE f.pc = "load" ->
                 /\ Goto(t, [f EXCEPT !.pc = "gc", !.g = generation_[f.b]])
                 /\ UNCHANGED <<gc_flag_, delay_gc_>>
            [] f.pc = "gc" ->
                 \* generation::gc: gc_flag_.test_and_set, then gc_
                 /\ gc_flag_' = [gc_flag_ EXCEPT ![f.g] = TRUE]
                 /\ IF test_and_set(f.g)
                    THEN Goto(t, [f EXCEPT !.pc = "while"]) /\ UNCHANGED delay_gc_
                    ELSE maybe_delay_gc_(t, f)
            [] f.pc = "while" ->
                 /\ IF f.g # generation_[f.b]
                    THEN Goto(t, [f EXCEPT !.pc = "gc", !.g = generation_[f.b], !.hook = ""])
                    ELSE Return(t)
                 /\ UNCHANGED <<gc_flag_, delay_gc_>>
    /\ UNCHANGED <<store_refs_, generation_, seq_, controls_, mtx_, merge_mtx_,
                   red_promotion_mtx_, dst_, destroyed, ext, ops, ub, hazard_vars, alloc_vars>>

\* gc_operation: g_ is the generation to collect, n the number of times the
\* hook calls operator() on it in a row, k the number of calls that returned
opFrame(g, n) == [fn |-> "gc_operation", pc |-> "reset", g_ |-> g, n |-> n, k |-> 0]
\* the hook, on any thread, calls the gc_operation of generation g it was
\* handed: g_ is not null and the call runs g_->gc_()
CallHeld(t, g, n) ==
    /\ ub = "" /\ stk[t] = <<>> /\ g \in delay_gc_.held
    /\ delay_gc_' = [delay_gc_ EXCEPT !.held = @ \ {g}]
    /\ stk' = [stk EXCEPT ![t] = <<gc_Frame(g), opFrame(g, n)>>]
    /\ UNCHANGED <<store_refs_, generation_, seq_, controls_, gc_flag_, mtx_,
                   merge_mtx_, red_promotion_mtx_, dst_, destroyed, ext, ops, ub, hazard_vars, alloc_vars>>
KeepsGeneration(g) == g
\* g_ after g_.reset()
reset(g) == NULL
\* gc_operation::operator(): if (g_ != nullptr) g_->gc_(); g_.reset();
gc_operation(t) ==
    /\ Running(t, "gc_operation")
    /\ LET f == Top(t)
       IN CASE f.pc = "reset" ->
                 IF f.k + 1 = f.n THEN Return(t)
                 ELSE Goto(t, [f EXCEPT !.pc = "call", !.g_ = reset(f.g_), !.k = @ + 1])
            [] f.pc = "call" ->
                 IF f.g_ # NULL
                 THEN Call(t, [f EXCEPT !.pc = "reset"], gc_Frame(f.g_))
                 ELSE Goto(t, [f EXCEPT !.pc = "reset"])
    /\ UNCHANGED <<store_refs_, generation_, seq_, controls_, gc_flag_, mtx_,
                   merge_mtx_, red_promotion_mtx_, dst_, destroyed, ext, ops, ub,
                   delay_gc_, hazard_vars, alloc_vars>>


\* --------------------------------------------------------- pointer operations
Idle(t) == stk[t] = <<>> /\ ub = ""
MayStart(t) == Idle(t) /\ ops[t] > 0
Started(t) == ops' = [ops EXCEPT ![t] = @ - 1]
\* vertex v of block o is in use by an operation of some thread
VertexBusy(o, v) ==
    \E t \in Threads : stk[t] # <<>> /\
        LET f == stk[t][Len(stk[t])]
        IN \/ f.fn \in {"vertex::reset", "reset", "load"} /\ f.o = o /\ f.v = v
           \/ f.fn = "vertex::reset" /\ f.so = o /\ f.sv = v

\* cycle_gptr copy constructor: acquire_no_red on a held target
CopyGptr(t, b) ==
    /\ MayStart(t) /\ Started(t)
    /\ ext[t][b] > 0 /\ ext[t][b] < MaxRefs
    /\ store_refs_' = [store_refs_ EXCEPT ![b] = fetch_add(@)]
    /\ ext' = [ext EXCEPT ![t][b] = @ + 1]
    /\ UNCHANGED <<generation_, seq_, controls_, gc_flag_, mtx_, merge_mtx_,
                   red_promotion_mtx_, dst_, destroyed, stk, ub, delay_gc_, hazard_vars, alloc_vars>>

\* ~cycle_gptr / cycle_gptr::reset: release of a held target
DropGptr(t, b) ==
    /\ Idle(t)
    /\ ext[t][b] > 0
    /\ store_refs_' = [store_refs_ EXCEPT ![b] = fetch_sub(@)]
    /\ ext' = [ext EXCEPT ![t][b] = @ - 1]
    /\ stk' = [stk EXCEPT ![t] =
                 IF ReleaseNeedsGc(store_refs_[b], FALSE) THEN <<gcFrame(b)>> ELSE <<>>]
    /\ UNCHANGED <<generation_, seq_, controls_, gc_flag_, mtx_, merge_mtx_,
                   red_promotion_mtx_, dst_, destroyed, ops, ub, delay_gc_, hazard_vars, alloc_vars>>

\* base_control::acquire on word w
acquire(w) ==
    make_refcounter(get_refs(w) + 1, IF get_color(w) = red THEN grey ELSE get_color(w))
expired(b) == get_color(store_refs_[b]) = black
\* an owner that is never taken for expired
OwnerNeverExpired(o) == FALSE
\* vertex::owner_is_expired of a vertex of block o
owner_is_expired(o) == expired(o)

\* cycle_gptr(const cycle_member_ptr&): get_control, then the expiry test of
\* the owner and acquire
LoadMember(t, o, v) ==
    /\ MayStart(t) /\ Started(t)
    /\ ext[t][o] > 0 /\ ~VertexBusy(o, v)
    /\ \A b \in Blocks : ext[t][b] < MaxRefs
    /\ stk' = [stk EXCEPT ![t] =
                 <<[fn |-> "load", pc |-> "acquire", o |-> o, v |-> v, d |-> dst_[o][v]]>>]
    /\ UNCHANGED <<store_refs_, generation_, seq_, controls_, gc_flag_, mtx_,
                   merge_mtx_, red_promotion_mtx_, dst_, destroyed, ext, ub, delay_gc_, hazard_vars, alloc_vars>>

LoadAcquire(t) ==
    /\ Running(t, "load") /\ ub = ""
    /\ LET f == Top(t)
       IN IF owner_is_expired(f.o) \/ f.d = NULL
          THEN UNCHANGED <<store_refs_, ext>>
          ELSE /\ store_refs_' = [store_refs_ EXCEPT ![f.d] = acquire(@)]
               /\ ext' = [ext EXCEPT ![t][f.d] = @ + 1]
    /\ Return(t)
    /\ UNCHANGED <<generation_, seq_, controls_, gc_flag_, mtx_, merge_mtx_,
                   red_promotion_mtx_, dst_, destroyed, ops, ub, delay_gc_, hazard_vars, alloc_vars>>

\* cycle_weak_ptr::lock
LockWeak(t, b) ==
    /\ MayStart(t) /\ Started(t)
    /\ ext[t][b] < MaxRefs
    /\ stk' = [stk EXCEPT ![t] =
                 <<[fn |-> "weak_acquire", pc |-> "cas", b |-> b, g |-> NULL]>>]
    /\ UNCHANGED <<store_refs_, generation_, seq_, controls_, gc_flag_, mtx_,
                   merge_mtx_, red_promotion_mtx_, dst_, destroyed, ext, ub, delay_gc_, hazard_vars, alloc_vars>>

\* a promotion that takes a BLACK word like any other
AlwaysPromotable(w) == TRUE
\* the loop condition of weak_acquire: the word read is not BLACK
Promotable(w) == get_color(w) # black

weak_acquire(t) ==
    /\ Running(t, "weak_acquire") /\ ub = ""
    /\ LET f == Top(t)
           w == store_refs_[f.b]
           unlocked == [red_promotion_mtx_ EXCEPT ![f.g].sh = @ \ {t}]
       IN CASE f.pc = "lock" ->
                 \* shared lock of red_promotion_mtx_, kept if the generation
                 \* is still the block's
                 /\ red_promotion_mtx_[f.g].ex = 0
                 /\ IF f.g = generation_[f.b]
                    THEN /\ red_promotion_mtx_' =
                               [red_promotion_mtx_ EXCEPT ![f.g].sh = @ \cup {t}]
                         /\ Goto(t, [f EXCEPT !.pc = "cas"])
                    ELSE /\ Goto(t, [f EXCEPT !.g = generation_[f.b]])
                         /\ UNCHANGED red_promotion_mtx_
                 /\ UNCHANGED <<store_refs_, ext>>
            [] f.pc = "cas" /\ ~Promotable(w) ->
                 /\ red_promotion_mtx_' = IF f.g = NULL THEN red_promotion_mtx_ ELSE unlocked
                 /\ Return(t)
                 /\ UNCHANGED <<store_refs_, ext>>
            [] f.pc = "cas" /\ get_color(w) = red /\ f.g = NULL ->
                 /\ Goto(t, [f EXCEPT !.pc = "lock", !.g = generation_[f.b]])
                 /\ UNCHANGED <<store_refs_, ext, red_promotion_mtx_>>
            [] OTHER ->
                 /\ store_refs_' = [store_refs_ EXCEPT ![f.b] = acquire(w)]
                 /\ ext' = [ext EXCEPT ![t][f.b] = @ + 1]
                 /\ red_promotion_mtx_' = IF f.g = NULL THEN red_promotion_mtx_ ELSE unlocked
                 /\ Return(t)
    /\ UNCHANGED <<generation_, seq_, controls_, gc_flag_, mtx_, merge_mtx_,
                   dst_, destroyed, ops, ub, delay_gc_, hazard_vars, alloc_vars>>


\* ------------------------------------------------------------- vertex::reset
resetFrame(o, v, so, sv, n, hr, nr) ==
    [fn |-> "vertex::reset", pc |-> "check", o |-> o, v |-> v, so |-> so, sv |-> sv,
     n |-> n, hr |-> hr, nr |-> nr, g |-> NULL, lk |-> NULL, od |-> NULL,
     dr |-> FALSE, dor |-> FALSE, gor |-> FALSE]
fixFrame(o, n) ==
    [fn |-> "fix_ordering", pc |-> "load", o |-> o, n |-> n, sg |-> NULL, dg |-> NULL,
     dgr |-> FALSE, ss |-> 0, ds |-> 0, rd |-> NULL, rf |-> FALSE]

\* cycle_member_ptr::operator=(const cycle_gptr&)
AssignGptr(t, o, v, n) ==
    /\ MayStart(t) /\ Started(t)
    /\ ext[t][o] > 0 /\ ext[t][n] > 0 /\ ~VertexBusy(o, v)
    /\ stk' = [stk EXCEPT ![t] = <<resetFrame(o, v, NULL, NULL, n, FALSE, TRUE)>>]
    /\ UNCHANGED <<store_refs_, generation_, seq_, controls_, gc_flag_, mtx_,
                   merge_mtx_, red_promotion_mtx_, dst_, destroyed, ext, ub, delay_gc_, hazard_vars, alloc_vars>>

\* cycle_member_ptr::operator=(cycle_gptr&&): the reference moves into the edge
MoveGptr(t, o, v, n) ==
    /\ MayStart(t) /\ Started(t)
    /\ ext[t][o] > 0 /\ ext[t][n] > 0 /\ ~VertexBusy(o, v)
    /\ ext' = [ext EXCEPT ![t][n] = @ - 1]
    /\ stk' = [stk EXCEPT ![t] = <<resetFrame(o, v, NULL, NULL, n, TRUE, TRUE)>>]
    /\ UNCHANGED <<store_refs_, generation_, seq_, controls_, gc_flag_, mtx_,
                   merge_mtx_, red_promotion_mtx_, dst_, destroyed, ub, delay_gc_, hazard_vars, alloc_vars>>

\* cycle_member_ptr::operator=(const cycle_member_ptr&): owner_is_expired of
\* the source, get_control, vertex::reset(., false, false)
AssignMember(t, o, v, so, sv) ==
    /\ MayStart(t) /\ Started(t)
    /\ ext[t][o] > 0 /\ ext[t][so] > 0 /\ <<o, v>> # <<so, sv>>
    /\ ~VertexBusy(o, v) /\ ~VertexBusy(so, sv)
    /\ stk' = [stk EXCEPT ![t] =
                 IF owner_is_expired(so) THEN <<[fn |-> "reset", pc |-> "check", o |-> o, v |-> v,
                                        g |-> NULL, od |-> NULL]>>
                 ELSE <<resetFrame(o, v, so, sv, dst_[so][sv], FALSE, FALSE)>>]
    /\ UNCHANGED <<store_refs_, generation_, seq_, controls_, gc_flag_, mtx_,
                   merge_mtx_, red_promotion_mtx_, dst_, destroyed, ext, ub, delay_gc_, hazard_vars, alloc_vars>>

\* cycle_member_ptr::reset
ResetMember(t, o, v) ==
    /\ MayStart(t) /\ Started(t)
    /\ ext[t][o] > 0 /\ ~VertexBusy(o, v)
    /\ stk' = [stk EXCEPT ![t] = <<[fn |-> "reset", pc |-> "check", o |-> o, v |-> v,
                                     g |-> NULL, od |-> NULL]>>]
    /\ UNCHANGED <<store_refs_, generation_, seq_, controls_, gc_flag_, mtx_,
                   merge_mtx_, red_promotion_mtx_, dst_, destroyed, ext, ub, delay_gc_, hazard_vars, alloc_vars>>

\* cycle_member_ptr::operator=(cycle_member_ptr&&): *this = other, then
\* other.reset()
MoveMember(t, o, v, so, sv) ==
    /\ MayStart(t) /\ Started(t)
    /\ ext[t][o] > 0 /\ ext[t][so] > 0 /\ <<o, v>> # <<so, sv>>
    /\ ~VertexBusy(o, v) /\ ~VertexBusy(so, sv)
    /\ stk' = [stk EXCEPT ![t] =
                 <<IF owner_is_expired(so)
                   THEN [fn |-> "reset", pc |-> "check", o |-> o, v |-> v,
                         g |-> NULL, od |-> NULL]
                   ELSE resetFrame(o, v, so, sv, dst_[so][sv], FALSE, FALSE),
                   [fn |-> "reset", pc |-> "check", o |-> so, v |-> sv,
                    g |-> NULL, od |-> NULL]>>]
    /\ UNCHANGED <<store_refs_, generation_, seq_, controls_, gc_flag_, mtx_,
                   merge_mtx_, red_promotion_mtx_, dst_, destroyed, ext, ub, delay_gc_, hazard_vars, alloc_vars>>

\* clear_data_ of generation::gc_ runs the payload destructor, and the
\* destructor may use the member pointers of its own block and, through plain
\* references, those of any other block whose payload still stands.
\* Thread t is in a payload destructor and uses a member pointer of block o,
\* which is expired and not yet destroyed.
InDestructor(t, o) ==
    /\ Running(t, "gc_") /\ Top(t).pc = "clear"
    /\ ops[t] > 0 /\ Started(t)
    /\ expired(o) /\ destroyed[o] = 0

\* cycle_gptr(const cycle_member_ptr&) in a payload destructor
DtorLoad(t, o, v) ==
    /\ InDestructor(t, o)
    /\ \A b \in Blocks : ext[t][b] < MaxRefs
    /\ Call(t, Top(t), [fn |-> "load", pc |-> "acquire", o |-> o, v |-> v, d |-> dst_[o][v]])
    /\ UNCHANGED <<store_refs_, generation_, seq_, controls_, gc_flag_, mtx_,
                   merge_mtx_, red_promotion_mtx_, dst_, destroyed, ext, ub, delay_gc_, hazard_vars, alloc_vars>>

\* cycle_member_ptr::reset in a payload destructor
DtorReset(t, o, v) ==
    /\ InDestructor(t, o)
    /\ Call(t, Top(t), [fn |-> "reset", pc |-> "check", o |-> o, v |-> v,
                        g |-> NULL, od |-> NULL])
    /\ UNCHANGED <<store_refs_, generation_, seq_, controls_, gc_flag_, mtx_,
                   merge_mtx_, red_promotion_mtx_, dst_, destroyed, ext, ub, delay_gc_, hazard_vars, alloc_vars>>

\* cycle_member_ptr::operator=(const cycle_gptr&) in a payload destructor
DtorAssign(t, o, v, n) ==
    /\ InDestructor(t, o)
    /\ ext[t][n] > 0
    /\ Call(t, Top(t), resetFrame(o, v, NULL, NULL, n, FALSE, TRUE))
    /\ UNCHANGED <<store_refs_, generation_, seq_, controls_, gc_flag_, mtx_,
                   merge_mtx_, red_promotion_mtx_, dst_, destroyed, ext, ub, delay_gc_, hazard_vars, alloc_vars>>

\* cycle_member_ptr::operator=(cycle_gptr&&) in a payload destructor: the
\* reference of the cycle_gptr is handed to vertex::reset
DtorMove(t, o, v, n) ==
    /\ InDestructor(t, o)
    /\ ext[t][n] > 0
    /\ ext' = [ext EXCEPT ![t][n] = @ - 1]
    /\ Call(t, Top(t), resetFrame(o, v, NULL, NULL, n, TRUE, TRUE))
    /\ UNCHANGED <<store_refs_, generation_, seq_, controls_, gc_flag_, mtx_,
                   merge_mtx_, red_promotion_mtx_, dst_, destroyed, ub, delay_gc_, hazard_vars, alloc_vars>>

\* the deferred part of vertex::reset: what is left to do, in order
AfterExchange(f) ==
    [f EXCEPT !.pc = IF f.dr THEN "drop_new" ELSE IF f.dor THEN "drop_old"
                     ELSE IF f.gor THEN "gc_old" ELSE "done"]
\* the function goes on as f, or returns when f is done
GotoOrReturn(t, f) == IF f.pc = "done" THEN Return(t) ELSE Goto(t, f)
\* b->release() as the next statement of the function, which then goes on
\* as f or returns
ReleaseThen(t, f, b) ==
    /\ store_refs_' = [store_refs_ EXCEPT ![b] = fetch_sub(@)]
    /\ IF ReleaseNeedsGc(store_refs_[b], FALSE)
       THEN stk' = [stk EXCEPT ![t] =
                      (IF f.pc = "done" THEN <<gcFrame(b)>> ELSE <<gcFrame(b), f>>) \o Tail(@)]
       ELSE GotoOrReturn(t, f)

\* vertex::reset(new_dst, has_reference, no_red_promotion)
vertex_reset(t) ==
    /\ Running(t, "vertex::reset")
    /\ LET f == Top(t)
       IN CASE f.pc = "check" ->
                 /\ IF owner_is_expired(f.o) \/ dst_[f.o][f.v] = f.n
                    THEN IF f.n # NULL /\ f.hr
                         THEN ReleaseThen(t, [f EXCEPT !.pc = "done"], f.n)
                         ELSE Return(t) /\ UNCHANGED store_refs_
                    ELSE /\ IF f.n = NULL
                            THEN Goto(t, [f EXCEPT !.pc = "lock", !.g = generation_[f.o]])
                            ELSE Call(t, [f EXCEPT !.pc = "post_fix"], fixFrame(f.o, f.n))
                         /\ UNCHANGED store_refs_
                 /\ UNCHANGED <<merge_mtx_, dst_>>
            [] f.pc = "lock" ->
                 /\ merge_mtx_[f.g].ex = 0
                 /\ IF f.g = generation_[f.o]
                    THEN /\ merge_mtx_' = [merge_mtx_ EXCEPT ![f.g].sh = @ \cup {t}]
                         /\ Goto(t, [f EXCEPT !.pc = "exchange", !.lk = f.g])
                    ELSE /\ Goto(t, [f EXCEPT !.g = generation_[f.o]])
                         /\ UNCHANGED merge_mtx_
                 /\ UNCHANGED <<store_refs_, dst_>>
            [] f.pc = "post_fix" ->
                 /\ IF generation_[f.n] # generation_[f.o]
                    THEN /\ store_refs_' = [store_refs_ EXCEPT ![f.n] =
                               IF f.hr THEN @ ELSE IF f.nr THEN fetch_add(@) ELSE acquire(@)]
                         /\ Goto(t, [f EXCEPT !.pc = "exchange", !.g = generation_[f.o]])
                    ELSE /\ Goto(t, [f EXCEPT !.pc = "exchange", !.g = generation_[f.o],
                                              !.dr = f.hr])
                         /\ UNCHANGED store_refs_
                 /\ UNCHANGED <<merge_mtx_, dst_>>
            [] f.pc = "exchange" ->
                 LET od == dst_[f.o][f.v]
                     same == od # NULL /\ generation_[od] = f.g
                 IN /\ dst_' = [dst_ EXCEPT ![f.o][f.v] = f.n]
                    /\ merge_mtx_' = [merge_mtx_ EXCEPT ![f.lk].sh = @ \ {t}]
                    /\ GotoOrReturn(t, AfterExchange(
                          [f EXCEPT !.od = od, !.lk = NULL,
                                    !.dor = od # NULL /\ ~same,
                                    !.gor = same /\ get_refs(store_refs_[od]) = 0
                                                 /\ get_color(store_refs_[od]) # black]))
                    /\ UNCHANGED store_refs_
            [] f.pc = "drop_new" ->
                 /\ ReleaseThen(t, AfterExchange([f EXCEPT !.dr = FALSE]), f.n)
                 /\ UNCHANGED <<merge_mtx_, dst_>>
            [] f.pc = "drop_old" ->
                 /\ ReleaseThen(t, AfterExchange([f EXCEPT !.dr = FALSE, !.dor = FALSE]), f.od)
                 /\ UNCHANGED <<merge_mtx_, dst_>>
            [] f.pc = "gc_old" ->
                 /\ stk' = [stk EXCEPT ![t] = <<gcFrame(f.od)>> \o Tail(@)]
                 /\ UNCHANGED <<store_refs_, merge_mtx_, dst_>>
    /\ UNCHANGED <<generation_, seq_, controls_, gc_flag_, mtx_,
                   red_promotion_mtx_, destroyed, ext, ops, ub, delay_gc_, hazard_vars, alloc_vars>>

\* vertex::reset(): the merge lock is held until the function returns
vertex_reset0(t) ==
    /\ Running(t, "reset")
    /\ LET f == Top(t)
       IN CASE f.pc = "check" ->
                 /\ IF owner_is_expired(f.o) \/ dst_[f.o][f.v] = NULL
                    THEN Return(t)
                    ELSE Goto(t, [f EXCEPT !.pc = "lock", !.g = generation_[f.o]])
                 /\ UNCHANGED <<store_refs_, merge_mtx_, dst_>>
            [] f.pc = "lock" ->
                 /\ merge_mtx_[f.g].ex = 0
                 /\ IF f.g = generation_[f.o]
                    THEN /\ merge_mtx_' = [merge_mtx_ EXCEPT ![f.g].sh = @ \cup {t}]
                         /\ Goto(t, [f EXCEPT !.pc = "exchange"])
                    ELSE /\ Goto(t, [f EXCEPT !.g = generation_[f.o]])
                         /\ UNCHANGED merge_mtx_
                 /\ UNCHANGED <<store_refs_, dst_>>
            [] f.pc = "exchange" ->
                 LET od == dst_[f.o][f.v]
                     f2 == [f EXCEPT !.pc = "unlock", !.od = od]
                 IN /\ dst_' = [dst_ EXCEPT ![f.o][f.v] = NULL]
                    /\ IF od = NULL
                       THEN Goto(t, f2) /\ UNCHANGED store_refs_
                       ELSE IF generation_[od] # f.g
                       THEN ReleaseThen(t, f2, od)
                       ELSE /\ IF get_refs(store_refs_[od]) = 0
                                  /\ get_color(store_refs_[od]) # black
                               THEN Call(t, f2, gcFrame(od))
                               ELSE Goto(t, f2)
                            /\ UNCHANGED store_refs_
                    /\ UNCHANGED merge_mtx_
            [] f.pc = "unlock" ->
                 /\ merge_mtx_' = [merge_mtx_ EXCEPT ![f.g].sh = @ \ {t}]
                 /\ Return(t)
                 /\ UNCHANGED <<store_refs_, dst_>>
    /\ UNCHANGED <<generation_, seq_, controls_, gc_flag_, mtx_,
                   red_promotion_mtx_, destroyed, ext, ops, ub, delay_gc_, hazard_vars, alloc_vars>>


\* ------------------------------------------------- generation::fix_ordering
\* an ordering test that never asks for a merge
AlwaysOrdered(origin, dest) == TRUE
order_invariant(origin, dest) == seq_[origin] < ClearMoveable(seq_[dest])
\* a lowering loop without the floor of 3
LowerToAny(src_gen_seq, dst_gen_seq) == IsMoveable(src_gen_seq)
\* the condition of the lowering loop
MayLower(src_gen_seq, dst_gen_seq) == IsMoveable(src_gen_seq) /\ dst_gen_seq > 3
merge_Frame(src, sgr, dst, dgr) ==
    [fn |-> "merge_", pc |-> "lock_merge", src |-> src, sgr |-> sgr,
     rd |-> dst, rf |-> dgr, i |-> 1, e |-> 1]
\* a return that drops the promise of a collection of dst
ReturnNoRequest(t, dst, dgr) ==
    stk' = [stk EXCEPT ![t] = <<[@[2] EXCEPT !.rd = dst, !.rf = FALSE]>> \o Tail(Tail(@))]
\* the function returns the pair (dst, dst_gc_requested) to its caller
ReturnMerge(t, dst, dgr) ==
    stk' = [stk EXCEPT ![t] = <<[@[2] EXCEPT !.rd = dst, !.rf = dgr]>> \o Tail(Tail(@))]
\* the function returns the lock on generation g to vertex::reset
ReturnLock(t, g) ==
    stk' = [stk EXCEPT ![t] = <<[@[2] EXCEPT !.lk = g]>> \o Tail(Tail(@))]

fix_ordering(t) ==
    /\ Running(t, "fix_ordering")
    /\ LET f == Top(t)
           ordered == f.sg = f.dg \/ order_invariant(f.sg, f.dg)
       IN CASE f.pc = "load" ->
                 /\ Goto(t, [f EXCEPT !.pc = "lock", !.sg = generation_[f.o],
                                      !.dg = generation_[f.n]])
                 /\ UNCHANGED <<seq_, merge_mtx_>>
            [] f.pc = "lock" ->
                 /\ merge_mtx_[f.sg].ex = 0
                 /\ merge_mtx_' = [merge_mtx_ EXCEPT ![f.sg].sh = @ \cup {t}]
                 /\ Goto(t, [f EXCEPT !.pc = "clear"])
                 /\ UNCHANGED seq_
            [] f.pc = "clear" ->
                 \* clear the moveable bit of dst_gen, then the outer condition
                 LET s2 == IF f.sg # f.dg
                           THEN [seq_ EXCEPT ![f.dg] = ClearMoveable(@)] ELSE seq_
                 IN /\ seq_' = s2
                    /\ Goto(t, [f EXCEPT !.pc =
                          IF f.sg = f.dg \/ s2[f.sg] < ClearMoveable(s2[f.dg]) \/ IsMoveable(s2[f.sg])
                          THEN "revalidate" ELSE "unlock"])
                    /\ UNCHANGED merge_mtx_
            [] f.pc = "revalidate" ->
                 \* while (src_gen != src.generation_): unlock, reload, lock
                 /\ IF f.sg = generation_[f.o]
                    THEN IF ~ordered
                         THEN Goto(t, [f EXCEPT !.pc = "lower", !.ss = seq_[f.sg],
                                                !.ds = seq_[f.dg]])
                         ELSE Goto(t, [f EXCEPT !.pc = "end"])
                    ELSE Goto(t, [f EXCEPT !.pc = "lock_again", !.sg = generation_[f.o]])
                 /\ merge_mtx_' =
                       IF f.sg = generation_[f.o] THEN merge_mtx_
                       ELSE [merge_mtx_ EXCEPT ![f.sg].sh = @ \ {t}]
                 /\ UNCHANGED seq_
            [] f.pc = "lock_again" ->
                 /\ merge_mtx_[f.sg].ex = 0
                 /\ merge_mtx_' = [merge_mtx_ EXCEPT ![f.sg].sh = @ \cup {t}]
                 /\ Goto(t, [f EXCEPT !.pc = "revalidate"])
                 /\ UNCHANGED seq_
            [] f.pc = "lower" ->
                 \* one compare_exchange of the lowering loop, or its exit
                 /\ IF MayLower(f.ss, f.ds)
                    THEN IF seq_[f.sg] = f.ss
                         THEN /\ seq_' = [seq_ EXCEPT ![f.sg] = f.ds - 1]
                              /\ Goto(t, [f EXCEPT !.pc = "recheck"])
                         ELSE /\ Goto(t, [f EXCEPT !.ss = seq_[f.sg]])
                              /\ UNCHANGED seq_
                    ELSE /\ Goto(t, [f EXCEPT !.pc = "recheck"])
                         /\ UNCHANGED seq_
                 /\ UNCHANGED merge_mtx_
            [] f.pc = "recheck" ->
                 /\ Goto(t, [f EXCEPT !.pc = IF ordered THEN "end" ELSE "unlock"])
                 /\ UNCHANGED <<seq_, merge_mtx_>>
            [] f.pc = "unlock" ->
                 \* unlock, order the pair, call merge_(dst_gen into src_gen)
                 LET swap == seq_[f.sg] = seq_[f.dg] /\ f.dg > f.sg
                     sg == IF swap THEN f.dg ELSE f.sg
                     dg == IF swap THEN f.sg ELSE f.dg
                 IN /\ merge_mtx_' = [merge_mtx_ EXCEPT ![f.sg].sh = @ \ {t}]
                    /\ Call(t, [f EXCEPT !.pc = "merged", !.sg = sg, !.dg = dg, !.dgr = FALSE],
                            merge_Frame(dg, IF swap THEN FALSE ELSE f.dgr,
                                        sg, IF swap THEN f.dgr ELSE FALSE))
                    /\ UNCHANGED seq_
            [] f.pc = "merged" ->
                 /\ IF f.rd # generation_[f.n] /\ f.rf
                    THEN Call(t, [f EXCEPT !.pc = "reload", !.dg = f.rd, !.dgr = FALSE],
                              gc_Frame(f.rd))
                    ELSE Goto(t, [f EXCEPT !.pc = "relock", !.dg = generation_[f.n],
                                           !.dgr = f.rf /\ f.rd = generation_[f.n],
                                           !.sg = generation_[f.o]])
                 /\ UNCHANGED <<seq_, merge_mtx_>>
            [] f.pc = "reload" ->
                 /\ Goto(t, [f EXCEPT !.pc = "relock", !.dg = generation_[f.n],
                                      !.sg = generation_[f.o]])
                 /\ UNCHANGED <<seq_, merge_mtx_>>
            [] f.pc = "relock" ->
                 /\ merge_mtx_[f.sg].ex = 0
                 /\ merge_mtx_' = [merge_mtx_ EXCEPT ![f.sg].sh = @ \cup {t}]
                 /\ Goto(t, [f EXCEPT !.pc = "clear"])
                 /\ UNCHANGED seq_
            [] f.pc = "end" ->
                 /\ IF f.dgr
                    THEN Call(t, [f EXCEPT !.dgr = FALSE], gc_Frame(f.dg))
                    ELSE ReturnLock(t, f.sg)
                 /\ UNCHANGED <<seq_, merge_mtx_>>
    /\ UNCHANGED <<store_refs_, generation_, controls_, gc_flag_, mtx_,
                   red_promotion_mtx_, dst_, destroyed, ext, ops, ub, delay_gc_, hazard_vars, alloc_vars>>


\* -------------------------------------------------------- generation::merge_
\* the next (block, edge) of the cascade loop, or merge0_
CascadeNext(f, L) ==
    IF f.e < NV THEN [f EXCEPT !.e = f.e + 1]
    ELSE IF f.i < Len(L) THEN [f EXCEPT !.i = f.i + 1, !.e = 1]
    ELSE [f EXCEPT !.pc = "flags"]

merge_(t) ==
    /\ Running(t, "merge_")
    /\ Top(t).pc \in {"lock_merge", "lock_mtx", "cascade"}
    /\ LET f == Top(t)
           L == controls_[f.src]
       IN CASE f.pc = "lock_merge" ->
                 /\ merge_mtx_[f.src].ex = 0 /\ merge_mtx_[f.src].sh = {}
                 /\ merge_mtx_' = [merge_mtx_ EXCEPT ![f.src].ex = t]
                 /\ Goto(t, [f EXCEPT !.pc = "lock_mtx"])
                 /\ UNCHANGED mtx_
            [] f.pc = "lock_mtx" ->
                 /\ mtx_[f.src] = 0
                 /\ mtx_' = [mtx_ EXCEPT ![f.src] = t]
                 /\ Goto(t, [f EXCEPT !.pc = IF L = <<>> THEN "flags" ELSE "cascade"])
                 /\ UNCHANGED merge_mtx_
            [] f.pc = "cascade" ->
                 \* one load of one edge of the cascade loop
                 LET ed == dst_[L[f.i]][f.e]
                 IN /\ IF /\ ed # NULL
                          /\ generation_[ed] # f.src /\ generation_[ed] # f.rd
                          /\ ~order_invariant(f.rd, generation_[ed])
                       THEN Call(t, f, merge_Frame(generation_[ed], FALSE, f.rd, f.rf))
                       ELSE Goto(t, CascadeNext(f, L))
                    /\ UNCHANGED <<mtx_, merge_mtx_>>
    /\ UNCHANGED <<store_refs_, generation_, seq_, controls_, gc_flag_,
                   red_promotion_mtx_, dst_, destroyed, ext, ops, ub, delay_gc_, hazard_vars, alloc_vars>>

\* number of edges of the blocks of list L that point at block d
EdgesInto(L, d) ==
    Cardinality({ie \in (1..Len(L)) \X Verts : dst_[L[ie[1]]][ie[2]] = d})

merge0_(t) ==
    /\ Running(t, "merge_")
    /\ Top(t).pc \in {"flags", "lock_dst", "stage2"}
    /\ LET f == Top(t)
           L == controls_[f.src]
       IN CASE f.pc = "flags" ->
                 \* the promises of a GC of src and of dst
                 /\ gc_flag_' = [gc_flag_ EXCEPT ![f.src] = TRUE, ![f.rd] = TRUE]
                 /\ Goto(t, [f EXCEPT !.pc = "lock_dst",
                                      !.sgr = f.sgr \/ ~gc_flag_[f.src],
                                      !.rf = f.rf \/ ~gc_flag_[f.rd]])
                 /\ UNCHANGED <<store_refs_, generation_, controls_, mtx_, merge_mtx_>>
            [] f.pc = "lock_dst" ->
                 \* lock of dst->mtx_ and stage 1: release(true) for every edge
                 \* of src into dst
                 /\ mtx_[f.rd] = 0
                 /\ mtx_' = [mtx_ EXCEPT ![f.rd] = t]
                 /\ store_refs_' = [d \in Blocks |->
                       IF generation_[d] = f.rd
                       THEN (store_refs_[d] - (2 ^ color_shift) * EdgesInto(L, d)) % WordMod
                       ELSE store_refs_[d]]
                 /\ Goto(t, [f EXCEPT !.pc = "stage2", !.i = 1])
                 /\ UNCHANGED <<generation_, controls_, gc_flag_, merge_mtx_>>
            [] f.pc = "stage2" /\ f.i <= Len(L) ->
                 \* stage 2: switch the generation pointer of one block
                 /\ generation_' = [generation_ EXCEPT ![L[f.i]] = f.rd]
                 /\ Goto(t, [f EXCEPT !.i = f.i + 1])
                 /\ UNCHANGED <<store_refs_, controls_, gc_flag_, mtx_, merge_mtx_>>
            [] f.pc = "stage2" /\ f.i > Len(L) ->
                 \* splice, the GC promises, and the unlocks of merge0_ and merge_
                 /\ controls_' = [controls_ EXCEPT ![f.rd] = @ \o L, ![f.src] = <<>>]
                 /\ gc_flag_' = [gc_flag_ EXCEPT ![f.src] = IF f.sgr THEN FALSE ELSE @,
                                                 ![f.rd] = TRUE]
                 /\ mtx_' = [mtx_ EXCEPT ![f.rd] = 0, ![f.src] = 0]
                 /\ merge_mtx_' = [merge_mtx_ EXCEPT ![f.src].ex = 0]
                 /\ ReturnMerge(t, f.rd, f.rf \/ ~gc_flag_[f.rd])
                 /\ UNCHANGED <<store_refs_, generation_>>
    /\ UNCHANGED <<seq_, red_promotion_mtx_, dst_, destroyed, ext, ops, ub, delay_gc_, hazard_vars, alloc_vars>>


\* -------------------------------------------------------------------- hazard
\* intrusive_ptr_add_ref and intrusive_ptr_release of object o; the object
\* is deallocated when its count reaches zero, and touching a deallocated
\* object is undefined
acquire_(o) ==
    /\ refcnt' = [refcnt EXCEPT ![o] = @ + 1]
    /\ ub' = IF deallocated[o] THEN "hazard: acquire_ of a deallocated object" ELSE ub
    /\ UNCHANGED deallocated
release_(o) ==
    /\ refcnt' = [refcnt EXCEPT ![o] = @ - 1]
    /\ deallocated' = [deallocated EXCEPT ![o] = @ \/ refcnt[o] = 1]
    /\ ub' = IF deallocated[o] THEN "hazard: release_ of a deallocated object" ELSE ub

hazardFrame(d, target) ==
    [fn |-> "hazard::operator()", pc |-> "publish", d |-> d, target |-> target, tmp |-> NULL]
releaseFrame(p) ==
    [fn |-> "hazard::release", pc |-> "acquire", p |-> p, i |-> 1, two_refs |-> FALSE]
\* the function returns pointer x to its caller, which owns it from now on
ReturnPtr(t, x) ==
    /\ stk' = [stk EXCEPT ![t] =
                 IF Len(@) = 1 THEN <<>>
                 ELSE <<[@[2] EXCEPT !.actual = x]>> \o Tail(Tail(@))]
    /\ owned' = IF x = NULL THEN owned ELSE [owned EXCEPT ![t][x] = @ + 1]

\* hazard::operator()(ptr, target), one atomic access at a time
hazard_operator(t) ==
    /\ Running(t, "hazard::operator()")
    /\ LET f == Top(t)
           retry == [f EXCEPT !.pc = "publish", !.target = f.tmp, !.tmp = NULL]
       IN CASE f.pc = "publish" /\ f.target = NULL ->
                 /\ ReturnPtr(t, NULL)
                 /\ UNCHANGED <<ptr_set_impl_, refcnt, deallocated, ub>>
            [] f.pc = "publish" /\ f.target # NULL ->
                 \* publish intent: spins until the slot is null
                 /\ ptr_set_impl_[f.d] = NULL
                 /\ ptr_set_impl_' = [ptr_set_impl_ EXCEPT ![f.d] = f.target]
                 /\ Goto(t, [f EXCEPT !.pc = "validate"])
                 /\ UNCHANGED <<refcnt, deallocated, owned, ub>>
            [] f.pc = "validate" ->
                 \* check that ptr (still or again) holds target
                 /\ Goto(t, IF ptr # f.target THEN [f EXCEPT !.pc = "cancel", !.tmp = ptr]
                            ELSE [f EXCEPT !.pc = "acquire"])
                 /\ UNCHANGED <<ptr_set_impl_, refcnt, deallocated, owned, ub>>
            [] f.pc = "cancel" ->
                 \* clear published value
                 /\ IF ptr_set_impl_[f.d] = f.target
                    THEN /\ ptr_set_impl_' = [ptr_set_impl_ EXCEPT ![f.d] = NULL]
                         /\ Goto(t, retry)
                    ELSE /\ Goto(t, [f EXCEPT !.pc = "aba"])
                         /\ UNCHANGED ptr_set_impl_
                 /\ UNCHANGED <<refcnt, deallocated, owned, ub>>
            [] f.pc = "aba" ->
                 \* another thread granted a reference
                 /\ IF ptr = f.target
                    THEN ReturnPtr(t, f.target)
                    ELSE Goto(t, [f EXCEPT !.pc = "aba_release"]) /\ UNCHANGED owned
                 /\ UNCHANGED <<ptr_set_impl_, refcnt, deallocated, ub>>
            [] f.pc = "aba_release" ->
                 /\ release_(f.target)
                 /\ Goto(t, retry)
                 /\ UNCHANGED <<ptr_set_impl_, owned>>
            [] f.pc = "acquire" ->
                 /\ acquire_(f.target)
                 /\ Goto(t, [f EXCEPT !.pc = "clear"])
                 /\ UNCHANGED <<ptr_set_impl_, owned>>
            [] f.pc = "clear" ->
                 /\ IF ptr_set_impl_[f.d] = f.target
                    THEN /\ ptr_set_impl_' = [ptr_set_impl_ EXCEPT ![f.d] = NULL]
                         /\ ReturnPtr(t, f.target)
                    ELSE /\ Goto(t, [f EXCEPT !.pc = "clear_release"])
                         /\ UNCHANGED <<ptr_set_impl_, owned>>
                 /\ UNCHANGED <<refcnt, deallocated, ub>>
            [] f.pc = "clear_release" ->
                 \* granted a reference, meaning we have 2
                 /\ release_(f.target)
                 /\ ReturnPtr(t, f.target)
                 /\ UNCHANGED ptr_set_impl_
    /\ UNCHANGED <<ptr, alloc_seq_, ops, cycle_vars, alloc_vars>>

\* a release that grants nothing to the published intents
NoGrant(f, granted) ==
    [f EXCEPT !.i = f.i + 1, !.two_refs = TRUE,
              !.pc = IF f.i = NSlots THEN "release_two" ELSE "cas"]
\* the frame of hazard::release after the compare-exchange on slot f.i
AfterGrant(f, granted) ==
    [f EXCEPT !.i = f.i + 1, !.two_refs = ~granted,
              !.pc = IF f.i = NSlots THEN (IF granted THEN "release" ELSE "release_two")
                     ELSE IF granted THEN "acquire" ELSE "cas"]

\* hazard::release(ptr), ptr not null
hazard_release(t) ==
    /\ Running(t, "hazard::release")
    /\ LET f == Top(t)
           granted == ptr_set_impl_[f.i] = f.p
       IN CASE f.pc = "acquire" ->
                 /\ acquire_(f.p)
                 /\ Goto(t, [f EXCEPT !.pc = "cas", !.two_refs = TRUE])
                 /\ UNCHANGED ptr_set_impl_
            [] f.pc = "cas" ->
                 /\ ptr_set_impl_' = IF AfterGrant(f, granted).two_refs THEN ptr_set_impl_
                                     ELSE [ptr_set_impl_ EXCEPT ![f.i] = NULL]
                 /\ Goto(t, AfterGrant(f, granted))
                 /\ UNCHANGED <<refcnt, deallocated, ub>>
            [] f.pc = "release_two" ->
                 /\ release_(f.p)
                 /\ Goto(t, [f EXCEPT !.pc = "release"])
                 /\ UNCHANGED ptr_set_impl_
            [] f.pc = "release" ->
                 /\ release_(f.p)
                 /\ Return(t)
                 /\ UNCHANGED ptr_set_impl_
    /\ UNCHANGED <<ptr, owned, alloc_seq_, ops, cycle_vars, alloc_vars>>


\* hazard_ptr::load: a hazard is allocated
HazardLoad(t) ==
    /\ stk[t] = <<>> /\ ub = "" /\ ops[t] > 0
    /\ ops' = [ops EXCEPT ![t] = @ - 1]
    /\ alloc_seq_' = (alloc_seq_ + 1) % NSlots
    /\ stk' = [stk EXCEPT ![t] = <<[fn |-> "hazard_ptr::load", pc |-> "load",
                                    d |-> alloc_seq_ + 1, actual |-> NULL]>>]
    /\ UNCHANGED <<ptr, ptr_set_impl_, refcnt, deallocated, owned, ub, cycle_vars, alloc_vars>>

\* return hazard_t()(ptr_)
hazard_ptr_load(t) ==
    /\ Running(t, "hazard_ptr::load")
    /\ LET f == Top(t)
       IN CASE f.pc = "load" ->
                 \* operator()(ptr) reads ptr and calls operator()(ptr, target)
                 Call(t, [f EXCEPT !.pc = "return"], hazardFrame(f.d, ptr))
            [] f.pc = "return" ->
                 \* the caller holds the pointer that was returned
                 Return(t)
    /\ UNCHANGED <<hazard_vars, ub, ops, cycle_vars, alloc_vars>>

\* hazard::reset(ptr, const pointer& new_value), and hazard::reset(ptr) for
\* n = NULL, by a thread that holds n
HazardReset(t, n) ==
    /\ stk[t] = <<>> /\ ub = "" /\ ops[t] > 0
    /\ n # NULL => owned[t][n] > 0
    /\ ops' = [ops EXCEPT ![t] = @ - 1]
    /\ stk' = [stk EXCEPT ![t] = <<[fn |-> "hazard::reset", pc |-> "copy", n |-> n]>>]
    /\ UNCHANGED <<hazard_vars, ub, cycle_vars, alloc_vars>>

hazard_reset(t) ==
    /\ Running(t, "hazard::reset")
    /\ LET f == Top(t)
       IN CASE f.pc = "copy" ->
                 \* pointer(new_value)
                 /\ IF f.n = NULL THEN UNCHANGED <<refcnt, deallocated, ub>> ELSE acquire_(f.n)
                 /\ Goto(t, [f EXCEPT !.pc = "exchange"])
                 /\ UNCHANGED ptr
            [] f.pc = "exchange" ->
                 \* release(ptr.exchange(new_value.detach()))
                 /\ ptr' = f.n
                 /\ IF ptr = NULL THEN Return(t) ELSE Goto(t, releaseFrame(ptr))
                 /\ UNCHANGED <<refcnt, deallocated, ub>>
    /\ UNCHANGED <<ptr_set_impl_, owned, alloc_seq_, ops, cycle_vars, alloc_vars>>

\* hazard::exchange(ptr, const pointer& new_value) by a thread that holds n
HazardExchange(t, n) ==
    /\ stk[t] = <<>> /\ ub = "" /\ ops[t] > 0
    /\ n # NULL => owned[t][n] > 0
    /\ ops' = [ops EXCEPT ![t] = @ - 1]
    /\ stk' = [stk EXCEPT ![t] =
                 <<[fn |-> "hazard::exchange", pc |-> "copy", n |-> n, rv |-> NULL]>>]
    /\ UNCHANGED <<hazard_vars, ub, cycle_vars, alloc_vars>>

hazard_exchange(t) ==
    /\ Running(t, "hazard::exchange")
    /\ LET f == Top(t)
       IN CASE f.pc = "copy" ->
                 /\ IF f.n = NULL THEN UNCHANGED <<refcnt, deallocated, ub>> ELSE acquire_(f.n)
                 /\ Goto(t, [f EXCEPT !.pc = "exchange"])
                 /\ UNCHANGED <<ptr, owned>>
            [] f.pc = "exchange" ->
                 /\ ptr' = f.n
                 /\ Goto(t, [f EXCEPT !.pc = "acquire", !.rv = ptr])
                 /\ UNCHANGED <<refcnt, deallocated, ub, owned>>
            [] f.pc = "acquire" ->
                 \* release(acquire_(rv)): must grant old value to active hazards
                 /\ IF f.rv = NULL
                    THEN /\ ReturnPtr(t, NULL)
                         /\ UNCHANGED <<refcnt, deallocated, ub>>
                    ELSE /\ acquire_(f.rv)
                         /\ Call(t, [f EXCEPT !.pc = "return"], releaseFrame(f.rv))
                         /\ UNCHANGED owned
                 /\ UNCHANGED ptr
            [] f.pc = "return" ->
                 /\ ReturnPtr(t, f.rv)
                 /\ UNCHANGED <<ptr, refcnt, deallocated, ub>>
    /\ UNCHANGED <<ptr_set_impl_, alloc_seq_, ops, cycle_vars, alloc_vars>>

\* hazard::compare_exchange_strong(ptr, expected, desired) by a thread that
\* holds expected e and desired n
HazardCompareExchange(t, e, n) ==
    /\ stk[t] = <<>> /\ ub = "" /\ ops[t] > 0
    /\ e # NULL => owned[t][e] > 0
    /\ n # NULL => owned[t][n] > 0
    /\ ops' = [ops EXCEPT ![t] = @ - 1]
    /\ alloc_seq_' = (alloc_seq_ + 1) % NSlots
    /\ stk' = [stk EXCEPT ![t] =
                 <<[fn |-> "hazard::compare_exchange_strong", pc |-> "copy",
                    e |-> e, n |-> n, d |-> alloc_seq_ + 1, actual |-> NULL]>>]
    /\ UNCHANGED <<ptr, ptr_set_impl_, refcnt, deallocated, owned, ub, cycle_vars, alloc_vars>>

hazard_compare_exchange_strong(t) ==
    /\ Running(t, "hazard::compare_exchange_strong")
    /\ LET f == Top(t)
       IN CASE f.pc = "copy" ->
                 \* desired is passed by value
                 /\ IF f.n = NULL THEN UNCHANGED <<refcnt, deallocated, ub>> ELSE acquire_(f.n)
                 /\ Goto(t, [f EXCEPT !.pc = "cas"])
                 /\ UNCHANGED <<ptr, owned>>
            [] f.pc = "cas" ->
                 /\ IF ptr = f.e
                    THEN \* desired.detach(); release(expected.get()); return true
                         /\ ptr' = f.n
                         /\ IF f.e = NULL THEN Return(t) ELSE Goto(t, releaseFrame(f.e))
                    ELSE \* actual = hz(ptr, expect)
                         /\ Call(t, [f EXCEPT !.pc = "compare"], hazardFrame(f.d, ptr))
                         /\ UNCHANGED ptr
                 /\ UNCHANGED <<refcnt, deallocated, ub, owned>>
            [] f.pc = "compare" /\ f.e = f.actual ->
                 \* actual goes out of scope, the loop goes on
                 /\ IF f.actual = NULL
                    THEN UNCHANGED <<refcnt, deallocated, ub, owned>>
                    ELSE /\ release_(f.actual)
                         /\ owned' = [owned EXCEPT ![t][f.actual] = @ - 1]
                 /\ Goto(t, [f EXCEPT !.pc = "cas", !.actual = NULL])
                 /\ UNCHANGED ptr
            [] f.pc = "compare" /\ f.e # f.actual ->
                 \* expected = std::move(actual): the old expected is released
                 /\ IF f.e = NULL
                    THEN UNCHANGED <<refcnt, deallocated, ub, owned>>
                    ELSE /\ release_(f.e)
                         /\ owned' = [owned EXCEPT ![t][f.e] = @ - 1]
                 /\ Goto(t, [f EXCEPT !.pc = "drop_desired"])
                 /\ UNCHANGED ptr
            [] f.pc = "drop_desired" ->
                 \* return false: desired goes out of scope
                 /\ IF f.n = NULL THEN UNCHANGED <<refcnt, deallocated, ub>> ELSE release_(f.n)
                 /\ Return(t)
                 /\ UNCHANGED <<ptr, owned>>
    /\ UNCHANGED <<ptr_set_impl_, alloc_seq_, ops, cycle_vars, alloc_vars>>

\* an intrusive_ptr that a thread holds goes out of scope
HazardDrop(t, o) ==
    /\ stk[t] = <<>> /\ ub = ""
    /\ owned[t][o] > 0
    /\ release_(o)
    /\ owned' = [owned EXCEPT ![t][o] = @ - 1]
    /\ UNCHANGED <<ptr, ptr_set_impl_, alloc_seq_, stk, ops, cycle_vars, alloc_vars>>


\* ------------------------------------------------------------ specification
\* no hazard pointer is in use: the source pointer and the slots are null
\* ------------------------------------------------- publisher, allocate_cycle
Miss == 0 - 1
\* the bases of the published ranges that upper_bound(address_range{addr, len})
\* leaves before its position: operator< compares the base addresses only
NotAfter(map, addr) == {r \in map : ~(addr < r.addr)}
\* publisher::lookup: the range before the upper bound, if its end covers the
\* query; Miss is the runtime_error
lookup(map, addr, len) ==
    IF NotAfter(map, addr) = {} THEN Miss
    ELSE LET pos == CHOOSE r \in NotAfter(map, addr) :
                        \A q \in NotAfter(map, addr) : q.addr <= r.addr
         IN IF pos.addr + pos.len >= addr + len THEN pos.bc ELSE Miss

\* the memory of an object being constructed lies inside that of an object
\* constructed before it, behind its first byte, or apart from it
Inside(a, l, r) == r.addr < a /\ a + l <= r.addr + r.len
Apart(a, l, r) == a + l <= r.addr \/ r.addr + r.len <= a
\* publisher::publisher: the range [a, a + l) of an object of block bc that
\* is about to be constructed is put into the map
Publish(a, l, bc) ==
    /\ ub = ""
    /\ \A r \in published : Inside(a, l, r) \/ Apart(a, l, r)
    /\ published' = published \cup {[addr |-> a, len |-> l, bc |-> bc]}
    /\ UNCHANGED <<cycle_vars, stk, ops, ub, hazard_vars, under_construction, edges_,
                   heap, looked, thrown>>
\* publisher::~publisher: erase(iter_)
Unpublish(r) ==
    /\ ub = "" /\ r \in published
    /\ published' = published \ {r}
    /\ UNCHANGED <<cycle_vars, stk, ops, ub, hazard_vars, under_construction, edges_,
                   heap, looked, thrown>>
\* base_control::publisher_lookup(addr, len)
PublisherLookup(addr, len) ==
    /\ ub = ""
    /\ looked' = [addr |-> addr, len |-> len, bc |-> lookup(published, addr, len)]
    /\ UNCHANGED <<cycle_vars, stk, ops, ub, hazard_vars, under_construction, edges_,
                   heap, published, thrown>>

\* the store_ of block b and the vertices in it, one address each
StoreAddr(b) == (b - 1) * NV
StoreRange(b) == [addr |-> StoreAddr(b), len |-> NV, bc |-> b]
\* the failures a payload constructor may end with
Failures == {"ctor_error", "bad_weak_ptr"}

\* a flag that is never read as set
NeverUnderConstruction(b) == FALSE
\* base_control::under_construction of block b
UnderConstruction(b) == under_construction[b]

\* a control block that is left linked
StaysLinked(L, b) == L
\* generation::unlink of block b from the list L
unlink(L, b) == SelectSeq(L, LAMBDA x : x # b)

\* allocate_cycle up to the construction of the control block: the block is
\* allocated, base_control() links it into a new generation with one strong
\* reference, and instantiate is next
AllocateCycle(t, b) ==
    /\ MayStart(t) /\ Started(t)
    /\ heap[b] = "none" /\ \A a \in Blocks : a < b => heap[a] # "none"
    /\ heap' = [heap EXCEPT ![b] = "live"]
    /\ under_construction' = [under_construction EXCEPT ![b] = TRUE]
    /\ store_refs_' = [store_refs_ EXCEPT ![b] = make_refcounter(1, white)]
    /\ generation_' = [generation_ EXCEPT ![b] = b]
    /\ controls_' = [controls_ EXCEPT ![b] = <<b>>]
    /\ thrown' = [thrown EXCEPT ![t] = ""]
    /\ stk' = [stk EXCEPT ![t] = <<[fn |-> "allocate_cycle", pc |-> "publish", b |-> b,
                                     nv |-> 0, err |-> ""]>>]
    /\ UNCHANGED <<seq_, gc_flag_, mtx_, merge_mtx_, red_promotion_mtx_, dst_, destroyed,
                   ext, ub, delay_gc_, hazard_vars, edges_, published, looked>>

\* cycle_base::shared_from_this of a held block
SharedFromThis(t, b) ==
    /\ MayStart(t) /\ Started(t)
    /\ ext[t][b] > 0 /\ ext[t][b] < MaxRefs
    /\ stk' = [stk EXCEPT ![t] = <<[fn |-> "shared_from_this", b |-> b]>>]
    /\ UNCHANGED <<cycle_vars, ub, hazard_vars, alloc_vars>>

\* cycle_base::shared_from_this: bad_weak_ptr while the block is under
\* construction, weak_acquire otherwise
shared_from_this(t) ==
    /\ Running(t, "shared_from_this")
    /\ IF UnderConstruction(Top(t).b)
       THEN /\ thrown' = [thrown EXCEPT ![t] = "bad_weak_ptr"]
            /\ Return(t)
       ELSE /\ Goto(t, [fn |-> "weak_acquire", pc |-> "cas", b |-> Top(t).b, g |-> NULL])
            /\ UNCHANGED thrown
    /\ UNCHANGED <<cycle_vars, ops, ub, hazard_vars, under_construction, edges_, heap,
                   published, looked>>

\* control::instantiate, the payload constructor it runs, and the unwinding
\* of a constructor that failed
allocate_cycle(t) ==
    /\ Running(t, "allocate_cycle")
    /\ LET f == Top(t)
           b == f.b
       IN CASE f.pc = "publish" ->
                 \* publisher pub{&store_, sizeof(store_), *this}
                 /\ published' = published \cup {StoreRange(b)}
                 /\ Goto(t, [f EXCEPT !.pc = "ctor"])
                 /\ UNCHANGED <<store_refs_, controls_, ext, under_construction, edges_,
                                heap, looked, thrown>>
            [] f.pc = "ctor" ->
                 \/ \* the constructor of the next member pointer: vertex::vertex()
                    \* looks its control block up and links itself into edges_
                    /\ f.nv < NV
                    /\ LET bc == lookup(published, StoreAddr(b) + f.nv, 1)
                       IN /\ looked' = [addr |-> StoreAddr(b) + f.nv, len |-> 1, bc |-> bc]
                          /\ IF bc = Miss
                             THEN /\ Goto(t, [f EXCEPT !.pc = "unwind", !.err = "runtime_error"])
                                  /\ thrown' = [thrown EXCEPT ![t] = "runtime_error"]
                                  /\ UNCHANGED edges_
                             ELSE /\ Goto(t, [f EXCEPT !.nv = f.nv + 1])
                                  /\ edges_' = [edges_ EXCEPT ![bc] = @ + 1]
                                  /\ UNCHANGED thrown
                    /\ UNCHANGED <<store_refs_, controls_, ext, under_construction, heap,
                                   published>>
                 \/ \* the constructor asks for a pointer to the object itself
                    /\ thrown[t] = ""
                    /\ Call(t, f, [fn |-> "shared_from_this", b |-> b])
                    /\ UNCHANGED <<store_refs_, controls_, ext, under_construction, edges_,
                                   heap, published, looked, thrown>>
                 \/ \* the constructor fails, with an exception of its own or
                    \* with the one it saw
                    /\ \E e \in Failures :
                          /\ thrown[t] \in {"", e}
                          /\ thrown' = [thrown EXCEPT ![t] = e]
                          /\ Goto(t, [f EXCEPT !.pc = "unwind", !.err = e])
                    /\ UNCHANGED <<store_refs_, controls_, ext, under_construction, edges_,
                                   heap, published, looked>>
                 \/ \* the constructor completes (an exception it saw was caught):
                    \* this->under_construction = false
                    /\ under_construction' = [under_construction EXCEPT ![b] = FALSE]
                    /\ thrown' = [thrown EXCEPT ![t] = ""]
                    /\ Goto(t, [f EXCEPT !.pc = "unpublish"])
                    /\ UNCHANGED <<store_refs_, controls_, ext, edges_, heap, published,
                                   looked>>
            [] f.pc = "unwind" ->
                 \* the member pointers constructed so far are destroyed:
                 \* vertex::~vertex erases the vertex from edges_
                 /\ IF f.nv > 0
                    THEN /\ edges_' = [edges_ EXCEPT ![b] = @ - 1]
                         /\ Goto(t, [f EXCEPT !.nv = f.nv - 1])
                    ELSE /\ Goto(t, [f EXCEPT !.pc = "unpublish"])
                         /\ UNCHANGED edges_
                 /\ UNCHANGED <<store_refs_, controls_, ext, under_construction, heap,
                                published, looked, thrown>>
            [] f.pc = "unpublish" ->
                 \* publisher::~publisher
                 /\ published' = published \ {StoreRange(b)}
                 /\ Goto(t, [f EXCEPT !.pc = IF f.err = "" THEN "emplace" ELSE "release"])
                 /\ UNCHANGED <<store_refs_, controls_, ext, under_construction, edges_,
                                heap, looked, thrown>>
            [] f.pc = "emplace" ->
                 \* result.emplace_(elem_ptr, std::move(ctrl_ptr)); return result
                 /\ ext' = [ext EXCEPT ![t][b] = @ + 1]
                 /\ Return(t)
                 /\ UNCHANGED <<store_refs_, controls_, under_construction, edges_, heap,
                                published, looked, thrown>>
            [] f.pc = "release" ->
                 \* ~intrusive_ptr of ctrl_ptr: the vertices hold the other
                 \* references to the control block; the last release runs the
                 \* deleter, and ~base_control unlinks a block under construction
                 /\ IF 1 + edges_[b] = 1
                    THEN /\ mtx_[generation_[b]] = 0
                         /\ heap' = [heap EXCEPT ![b] = "freed"]
                         /\ controls_' =
                              [controls_ EXCEPT ![generation_[b]] =
                                 IF UnderConstruction(b) THEN unlink(@, b) ELSE @]
                    ELSE UNCHANGED <<heap, controls_>>
                 /\ Return(t)
                 /\ UNCHANGED <<store_refs_, ext, under_construction, edges_, published,
                                looked, thrown>>
    /\ UNCHANGED <<generation_, seq_, gc_flag_, mtx_, merge_mtx_, red_promotion_mtx_,
                   dst_, destroyed, ops, ub, delay_gc_, hazard_vars>>

\* blocks that were constructed before, and nothing published
NoAlloc ==
    /\ under_construction = [b \in Blocks |-> FALSE]
    /\ edges_ = [b \in Blocks |-> NV]
    /\ heap = [b \in Blocks |-> "live"]
    /\ published = {}
    /\ looked = [addr |-> 0, len |-> 0, bc |-> NULL]
    /\ thrown = [t \in Threads |-> ""]
NoHazard ==
    /\ ptr = NULL
    /\ ptr_set_impl_ = [k \in Slots |-> NULL]
    /\ refcnt = [o \in Objs |-> 0]
    /\ deallocated = [o \in Objs |-> FALSE]
    /\ owned = [t \in Threads |-> [o \in Objs |-> 0]]
    /\ alloc_seq_ = 0

\* the sequence number new_seq_ gives the g-th generation that is created
FreshSeq(g) == new_seq_state + 2 * (g - 1) + moveable_seq

\* NB blocks were allocated one after the other, each in a generation of its
\* own (gap - 1 other allocations between two of them); thread t holds
\* held[t][b] cycle_gptr to block b.
Fresh(gap, held, budget) ==
    /\ store_refs_ = [b \in Blocks |->
          make_refcounter(Cardinality({t \in Threads : held[t][b] = 1}), white)]
    /\ generation_ = [b \in Blocks |-> b]
    /\ seq_ = [g \in Gens |-> new_seq_state + 2 * gap * (g - 1) + moveable_seq]
    /\ controls_ = [g \in Gens |-> <<g>>]
    /\ gc_flag_ = [g \in Gens |-> FALSE]
    /\ mtx_ = [g \in Gens |-> 0]
    /\ merge_mtx_ = [g \in Gens |-> [ex |-> 0, sh |-> {}]]
    /\ red_promotion_mtx_ = [g \in Gens |-> [ex |-> 0, sh |-> {}]]
    /\ dst_ = [b \in Blocks |-> [v \in Verts |-> NULL]]
    /\ destroyed = [b \in Blocks |-> 0]
    /\ ext = held
    /\ stk = [t \in Threads |-> <<>>]
    /\ ops = budget
    /\ ub = ""
    /\ NoHazard

Collector(t) ==
    \/ base_control_gc(t)
    \/ gc_lock(t)
    \/ gc_mark_(t)
    \/ gc_sweep_(t)
    \/ gc_phase2_lock(t)
    \/ gc_phase2_mark_(t)
    \/ gc_phase2_sweep_(t)
    \/ gc_phase3(t)
    \/ gc_destruct(t)
    \/ gc_clear(t)

Retarget(t) ==
    \/ vertex_reset(t)
    \/ vertex_reset0(t)
    \/ fix_ordering(t)
    \/ merge_(t)
    \/ merge0_(t)

\* One thread runs pointer operations one after the other.
InitSeq ==
    /\ Fresh(1, [t \in Threads |-> [b \in Blocks |-> IF t = 1 THEN 1 ELSE 0]],
             [t \in Threads |-> IF t = 1 THEN MaxOps ELSE 0])
    /\ delay_gc_ = [fn |-> FALSE, held |-> {}, throws |-> FALSE]
    /\ NoAlloc
NextSeq ==
    \/ \E b \in Blocks : CopyGptr(1, b) \/ DropGptr(1, b) \/ LockWeak(1, b)
    \/ \E o \in Blocks, v \in Verts :
          \/ LoadMember(1, o, v)
          \/ ResetMember(1, o, v)
          \/ \E n \in Blocks : AssignGptr(1, o, v, n) \/ MoveGptr(1, o, v, n)
          \/ \E so \in Blocks, sv \in Verts : AssignMember(1, o, v, so, sv)
    \/ LoadAcquire(1)
    \/ weak_acquire(1)
    \/ Retarget(1)
    \/ Collector(1)
SpecSeq == InitSeq /\ [][NextSeq]_vars

\* One thread assigns and drops pointers; the payload destructors that its
\* drops run use member pointers of expired blocks.
InitDtor ==
    /\ Fresh(1, [t \in Threads |-> [b \in Blocks |-> IF t = 1 THEN 1 ELSE 0]],
             [t \in Threads |-> IF t = 1 THEN DtorOps ELSE 0])
    /\ delay_gc_ = [fn |-> FALSE, held |-> {}, throws |-> FALSE]
    /\ NoAlloc
NextDtor ==
    \/ \E b \in Blocks : DropGptr(1, b)
    \/ \E o \in Blocks, v \in Verts :
          \/ DtorLoad(1, o, v)
          \/ DtorReset(1, o, v)
          \/ \E n \in Blocks :
                \/ AssignGptr(1, o, v, n)
                \/ DtorAssign(1, o, v, n)
                \/ DtorMove(1, o, v, n)
    \/ LoadAcquire(1)
    \/ Retarget(1)
    \/ Collector(1)
SpecDtor == InitDtor /\ [][NextDtor]_vars

\* No block exists yet; the threads allocate objects, whose constructors may
\* fail, and ask constructed objects for pointers to themselves.
InitAlloc ==
    /\ store_refs_ = [b \in Blocks |-> make_refcounter(0, white)]
    /\ generation_ = [b \in Blocks |-> NULL]
    /\ seq_ = [g \in Gens |-> FreshSeq(g)]
    /\ controls_ = [g \in Gens |-> <<>>]
    /\ gc_flag_ = [g \in Gens |-> FALSE]
    /\ mtx_ = [g \in Gens |-> 0]
    /\ merge_mtx_ = [g \in Gens |-> [ex |-> 0, sh |-> {}]]
    /\ red_promotion_mtx_ = [g \in Gens |-> [ex |-> 0, sh |-> {}]]
    /\ dst_ = [b \in Blocks |-> [v \in Verts |-> NULL]]
    /\ destroyed = [b \in Blocks |-> 0]
    /\ ext = [t \in Threads |-> [b \in Blocks |-> 0]]
    /\ stk = [t \in Threads |-> <<>>]
    /\ ops = [t \in Threads |-> AllocOps]
    /\ ub = ""
    /\ NoHazard
    /\ delay_gc_ = [fn |-> FALSE, held |-> {}, throws |-> FALSE]
    /\ under_construction = [b \in Blocks |-> FALSE]
    /\ edges_ = [b \in Blocks |-> 0]
    /\ heap = [b \in Blocks |-> "none"]
    /\ published = {}
    /\ looked = [addr |-> 0, len |-> 0, bc |-> NULL]
    /\ thrown = [t \in Threads |-> ""]
NextAlloc ==
    \E t \in Threads :
        \/ \E b \in Blocks : AllocateCycle(t, b) \/ SharedFromThis(t, b)
        \/ allocate_cycle(t)
        \/ shared_from_this(t)
        \/ weak_acquire(t)
SpecAlloc == InitAlloc /\ [][NextAlloc]_vars

\* The publisher map alone: objects in MaxAddr bytes of memory are published
\* and unpublished, and ranges are looked up.
InitPub ==
    /\ Fresh(1, [t \in Threads |-> [b \in Blocks |-> 1]], [t \in Threads |-> 0])
    /\ delay_gc_ = [fn |-> FALSE, held |-> {}, throws |-> FALSE]
    /\ NoAlloc
NextPub ==
    \/ \E a \in 0 .. MaxAddr - 1 : \E l \in 1 .. MaxAddr - a :
          \/ \E bc \in Blocks : Publish(a, l, bc)
          \/ PublisherLookup(a, l)
    \/ \E r \in published : Unpublish(r)
SpecPub == InitPub /\ [][NextPub]_vars


\* Every thread holds every block; thread t assigns to member t of the
\* blocks, from the pointers it holds.  When all assignments are done the
\* threads drop their pointers, the last thread first, the first thread last.
InitOrder ==
    /\ \E gap \in 1..MaxGap :
          Fresh(gap, [t \in Threads |-> [b \in Blocks |-> 1]],
                [t \in Threads |-> IF t = 1 THEN OrderOps ELSE 1])
    /\ delay_gc_ = [fn |-> FALSE, held |-> {}, throws |-> FALSE]
    /\ NoAlloc
Joined(t) ==
    /\ \A u \in Threads : ops[u] = 0 /\ stk[u] = <<>>
    /\ \A u \in Threads : u > t => \A b \in Blocks : ext[u][b] = 0
ScopeExit(t, b) ==
    /\ Joined(t)
    /\ \A c \in Blocks : c > b => ext[t][c] = 0
    /\ DropGptr(t, b)
StepOrder(t) ==
    \/ \E o \in Blocks, n \in Blocks : AssignGptr(t, o, t, n)
    \/ \E b \in Blocks : ScopeExit(t, b)
    \/ vertex_reset(t)
    \/ fix_ordering(t)
    \/ merge_(t)
    \/ merge0_(t)
    \/ Collector(t)
NextOrder == \E t \in Threads : StepOrder(t)
SpecOrder == InitOrder /\ [][NextOrder]_vars
\* The same for blocks allocated without other allocations in between,
\* under fair scheduling: every thread that can take a step is scheduled
\* again.
InitFair ==
    /\ Fresh(1, [t \in Threads |-> [b \in Blocks |-> 1]],
             [t \in Threads |-> IF t = 1 THEN OrderOps ELSE 1])
    /\ delay_gc_ = [fn |-> FALSE, held |-> {}, throws |-> FALSE]
    /\ NoAlloc
FairOrder ==
    InitFair /\ [][NextOrder]_vars /\ \A t \in Threads : WF_vars(StepOrder(t))

\* All blocks are in one generation (the outcome of earlier merges); the
\* first member of a block points at the next block or is null, the other
\* members are null.
\* The first thread holds block 1 and works on its members; the second
\* thread holds the other blocks and drops them.
InitGC ==
    /\ \E e \in [Blocks -> BOOLEAN] :
          dst_ = [b \in Blocks |-> [v \in Verts |->
                    IF v = 1 /\ e[b] THEN (b % NB) + 1 ELSE NULL]]
    /\ ext = [t \in Threads |-> [b \in Blocks |->
                 IF (t = 1 /\ b = 1) \/ (t = 2 /\ b # 1) THEN 1 ELSE 0]]
    /\ store_refs_ = [b \in Blocks |-> make_refcounter(1, white)]
    /\ generation_ = [b \in Blocks |-> 1]
    /\ seq_ = [g \in Gens |-> new_seq_state + 2 * (g - 1)]
    /\ controls_ = [g \in Gens |-> IF g = 1 THEN [k \in 1..NB |-> k] ELSE <<>>]
    /\ gc_flag_ = [g \in Gens |-> FALSE]
    /\ mtx_ = [g \in Gens |-> 0]
    /\ merge_mtx_ = [g \in Gens |-> [ex |-> 0, sh |-> {}]]
    /\ red_promotion_mtx_ = [g \in Gens |-> [ex |-> 0, sh |-> {}]]
    /\ destroyed = [b \in Blocks |-> 0]
    /\ stk = [t \in Threads |-> <<>>]
    /\ ops = [t \in Threads |-> IF t = 1 THEN GcOps ELSE 0]
    /\ ub = ""
    /\ NoHazard
    /\ delay_gc_ = [fn |-> FALSE, held |-> {}, throws |-> FALSE]
    /\ NoAlloc
NextGC ==
    \E t \in Threads :
        \/ \E b \in Blocks : DropGptr(t, b) \/ LockWeak(t, b)
        \/ \E o \in Blocks, v \in Verts :
              \/ LoadMember(t, o, v)
              \/ \E so \in Blocks, sv \in Verts : MoveMember(t, o, v, so, sv)
        \/ LoadAcquire(t)
        \/ weak_acquire(t)
        \/ vertex_reset(t)
        \/ vertex_reset0(t)
        \/ fix_ordering(t)
        \/ Collector(t)
SpecGC == InitGC /\ [][NextGC]_vars


\* A delay hook is installed.  The first thread holds every block, assigns
\* to members and drops its pointers; every collection that a release asks
\* for is handed to the hook, and the threads run the handed collections at
\* any later time.
InitDelay ==
    /\ Fresh(1, [t \in Threads |-> [b \in Blocks |-> IF t = 1 THEN 1 ELSE 0]],
             [t \in Threads |-> IF t = 1 THEN DelayOps ELSE 0])
    /\ delay_gc_ = [fn |-> TRUE, held |-> {}, throws |-> FALSE]
    /\ NoAlloc
NextDelay ==
    \/ \E b \in Blocks : DropGptr(1, b)
    \/ \E o \in Blocks, v \in Verts, n \in Blocks : AssignGptr(1, o, v, n)
    \/ \E t \in Threads :
          \/ \E g \in Gens : CallHeld(t, g, 1)
          \/ gc_operation(t)
          \/ vertex_reset(t)
          \/ fix_ordering(t)
          \/ merge_(t)
          \/ merge0_(t)
          \/ Collector(t)
SpecDelay == InitDelay /\ [][NextDelay]_vars

\* As SpecDelay, with no hook installed or with a hook that may throw.
InitThrow ==
    /\ Fresh(1, [t \in Threads |-> [b \in Blocks |-> IF t = 1 THEN 1 ELSE 0]],
             [t \in Threads |-> IF t = 1 THEN DelayOps ELSE 0])
    /\ \E fn \in BOOLEAN : delay_gc_ = [fn |-> fn, held |-> {}, throws |-> fn]
    /\ NoAlloc
SpecThrow == InitThrow /\ [][NextDelay]_vars

\* A collection of generation 1 runs with nothing else going on.  The blocks
\* are in generation 1, but for the last block, which may be in generation 2;
\* the first member of a block points anywhere or is null, the second points
\* at the next block or is null, and no edge leads from generation 2 back to
\* generation 1.  The second thread holds the blocks of h; the count of a
\* block is the number of its holders and of its edges from the other
\* generation.
QuietGen(away) == [b \in Blocks |-> IF b = NB /\ away THEN 2 ELSE 1]
QuietDst(e1, e2) ==
    [b \in Blocks |-> [v \in Verts |->
        IF v = 1 THEN e1[b] ELSE IF v = 2 /\ e2[b] THEN (b % NB) + 1 ELSE NULL]]
InitQuiet ==
    \E h \in [Blocks -> 0..1], away \in BOOLEAN,
       e1 \in [Blocks -> Blocks \cup {NULL}], e2 \in [Blocks -> BOOLEAN] :
        LET gen == QuietGen(away)
            d == QuietDst(e1, e2)
            counted(b) == {ov \in Blocks \X Verts :
                             d[ov[1]][ov[2]] = b /\ gen[ov[1]] # gen[b]}
        IN /\ \A b \in Blocks, v \in Verts :
                 d[b][v] # NULL => gen[b] <= gen[d[b][v]]
           /\ generation_ = gen
           /\ dst_ = d
           /\ store_refs_ = [b \in Blocks |->
                 make_refcounter(h[b] + Cardinality(counted(b)), white)]
           /\ ext = [t \in Threads |-> [b \in Blocks |-> IF t = 2 THEN h[b] ELSE 0]]
           /\ controls_ = [g \in Gens |->
                 IF g = 1 THEN [k \in 1..(IF away THEN NB - 1 ELSE NB) |-> k]
                 ELSE IF g = 2 /\ away THEN <<NB>> ELSE <<>>]
    /\ seq_ = [g \in Gens |-> new_seq_state + 2 * (g - 1)]
    /\ gc_flag_ = [g \in Gens |-> FALSE]
    /\ mtx_ = [g \in Gens |-> 0]
    /\ merge_mtx_ = [g \in Gens |-> [ex |-> 0, sh |-> {}]]
    /\ red_promotion_mtx_ = [g \in Gens |-> [ex |-> 0, sh |-> {}]]
    /\ destroyed = [b \in Blocks |-> 0]
    /\ stk = [t \in Threads |-> IF t = 1 THEN <<gc_Frame(1)>> ELSE <<>>]
    /\ ops = [t \in Threads |-> 0]
    /\ ub = ""
    /\ NoHazard
    /\ delay_gc_ = [fn |-> FALSE, held |-> {}, throws |-> FALSE]
    /\ NoAlloc
NextQuiet == Collector(1)
SpecQuiet == InitQuiet /\ [][NextQuiet]_vars

\* Hazard pointers: the source pointer holds object 1 and every thread holds
\* object 2; the threads load, reset, exchange and compare-exchange the
\* source pointer and drop the pointers they hold.
InitHazard ==
    /\ ptr = 1
    /\ ptr_set_impl_ = [k \in Slots |-> NULL]
    /\ refcnt = [o \in Objs |-> IF o = 1 THEN 1 ELSE IF o = 2 THEN NT ELSE 0]
    /\ deallocated = [o \in Objs |-> o > 2]
    /\ owned = [t \in Threads |-> [o \in Objs |-> IF o = 2 THEN 1 ELSE 0]]
    /\ alloc_seq_ = 0
    /\ stk = [t \in Threads |-> <<>>]
    /\ ops = [t \in Threads |-> HazOps]
    /\ ub = ""
    /\ store_refs_ = [b \in Blocks |-> make_refcounter(0, white)]
    /\ generation_ = [b \in Blocks |-> b]
    /\ seq_ = [g \in Gens |-> new_seq_state]
    /\ controls_ = [g \in Gens |-> <<>>]
    /\ gc_flag_ = [g \in Gens |-> FALSE]
    /\ mtx_ = [g \in Gens |-> 0]
    /\ merge_mtx_ = [g \in Gens |-> [ex |-> 0, sh |-> {}]]
    /\ red_promotion_mtx_ = [g \in Gens |-> [ex |-> 0, sh |-> {}]]
    /\ dst_ = [b \in Blocks |-> [v \in Verts |-> NULL]]
    /\ destroyed = [b \in Blocks |-> 0]
    /\ ext = [t \in Threads |-> [b \in Blocks |-> 0]]
    /\ delay_gc_ = [fn |-> FALSE, held |-> {}, throws |-> FALSE]
    /\ NoAlloc
NextHazard ==
    \E t \in Threads :
        \/ HazardLoad(t)
        \/ \E n \in Objs \cup {NULL} :
              \/ HazardReset(t, n)
              \/ HazardExchange(t, n)
              \/ \E e \in Objs \cup {NULL} : HazardCompareExchange(t, e, n)
        \/ \E o \in Objs : HazardDrop(t, o)
        \/ hazard_ptr_load(t)
        \/ hazard_operator(t)
        \/ hazard_release(t)
        \/ hazard_reset(t)
        \/ hazard_exchange(t)
        \/ hazard_compare_exchange_strong(t)
SpecHazard == InitHazard /\ [][NextHazard]_vars

\* ------------------------------------------------------------------ claims
RECURSIVE SumOver(_, _)
SumOver(f, S) ==
    IF S = {} THEN 0
    ELSE LET x == CHOOSE y \in S : TRUE IN f[x] + SumOver(f, S \ {x})
\* strong references to block b held by the threads
Held(b) == SumOver([t \in Threads |-> ext[t][b]], Threads)

\* C1: no block is BLACK and no payload is destroyed while a thread holds a
\* strong reference to the block.
C1_NoPrematureDestruction ==
    \A b \in Blocks : Held(b) > 0 => ~expired(b) /\ destroyed[b] = 0

\* C3: no payload destructor runs more than once for the same block.
C3_DestroyedAtMostOnce == \A b \in Blocks : destroyed[b] <= 1
\* a payload has been destroyed and two threads are inside collections
C3_Witness ==
    /\ \E b \in Blocks : destroyed[b] = 1
    /\ \E t \in Threads, u \in Threads :
          t # u /\ Running(t, "gc_") /\ Running(u, "gc_")
             /\ Top(t).pc # "lock" /\ Top(u).pc # "lock"

\* C5: the strong word of every block satisfies the colour-count invariant:
\* a positive count is WHITE or GREY, and BLACK has count zero.
C5_ColorInvariant == \A b \in Blocks : color_invariant(store_refs_[b])


\* the edge of member v of block o satisfies the ordering invariant
EdgeOrdered(o, v) ==
    dst_[o][v] # NULL =>
        \/ generation_[o] = generation_[dst_[o][v]]
        \/ order_invariant(generation_[o], generation_[dst_[o][v]])
AllIdle == \A t \in Threads : stk[t] = <<>>

\* C4: in every reachable state every edge with a non-null destination has
\* both ends in one generation, or the owner's generation has a sequence
\* number below that of the destination's generation (moveable bit cleared).
C4_OrderingInvariant == \A o \in Blocks, v \in Verts : EdgeOrdered(o, v)
\* C4, after each operation has returned: the ordering invariant holds in
\* every state in which no thread is inside an operation.
C4_OrderedWhenIdle == AllIdle => C4_OrderingInvariant

\* a thread inside an operation whose next step is not enabled
Blocked(t) ==
    /\ stk[t] # <<>>
    /\ LET f == Top(t)
       IN \/ f.fn = "gc_" /\ f.pc = "lock" /\ mtx_[f.g] # 0
          \/ f.fn = "gc_" /\ f.pc = "phase2_lock"
                /\ (red_promotion_mtx_[f.g].ex # 0 \/ red_promotion_mtx_[f.g].sh # {})
          \/ f.fn = "weak_acquire" /\ f.pc = "lock" /\ red_promotion_mtx_[f.g].ex # 0
          \/ f.fn \in {"vertex::reset", "reset"} /\ f.pc = "lock" /\ merge_mtx_[f.g].ex # 0
          \/ f.fn = "fix_ordering" /\ f.pc \in {"lock", "lock_again", "relock"}
                /\ merge_mtx_[f.sg].ex # 0
          \/ f.fn = "merge_" /\ f.pc = "lock_merge"
                /\ (merge_mtx_[f.src].ex # 0 \/ merge_mtx_[f.src].sh # {})
          \/ f.fn = "merge_" /\ f.pc = "lock_mtx" /\ mtx_[f.src] # 0
          \/ f.fn = "merge_" /\ f.pc = "lock_dst" /\ mtx_[f.rd] # 0

\* no reachable state is a deadlock: whenever some thread is inside an
\* operation, some thread inside an operation can take its next step
NoDeadlock ==
    (ub = "" /\ \E t \in Threads : stk[t] # <<>>)
        => \E t \in Threads : stk[t] # <<>> /\ ~Blocked(t)

C8_AllDestroyed ==
    (AllIdle /\ delay_gc_.held = {} /\ \A b \in Blocks : Held(b) = 0)
        => /\ \A b \in Blocks : destroyed[b] = 1
           /\ \A g \in Gens : controls_[g] = <<>>

\* some member of block a points at block b
Edge(a, b) == \E v \in Verts : dst_[a][v] = b
RECURSIVE ReachFrom(_)
ReachFrom(S) ==
    LET T == S \cup {b \in Blocks : \E a \in S : Edge(a, b)}
    IN IF T = S THEN S ELSE ReachFrom(T)
\* block b is held by a thread, or edges lead to it from a held block
Rooted(b) == b \in ReachFrom({r \in Blocks : Held(r) > 0})

\* C9: no block of a cycle A -> B -> A (or self-loop, A = B) is destroyed or
\* BLACK while a strong reference to a block of the cycle is held; and when
\* the drop of the last reference has returned, the blocks that no held
\* block leads to any more (the blocks of the cycle among them) have each
\* been destroyed exactly once, so that no cycle survives without a holder.
C9_CycleDestroyedOnLastDrop ==
    \A a \in Blocks, b \in Blocks :
        /\ (Edge(a, b) /\ Edge(b, a) /\ Held(a) > 0)
              => destroyed[a] = 0 /\ destroyed[b] = 0 /\ ~expired(a) /\ ~expired(b)
        /\ (AllIdle /\ Edge(a, b) /\ Edge(b, a)) => Rooted(a)
        /\ (AllIdle /\ ~Rooted(a)) => destroyed[a] = 1
\* the collection started by the last drop has found the two blocks of a
\* cycle unreachable and is about to destroy them
C9_Witness ==
    \E t \in Threads, a \in Blocks, b \in Blocks :
        /\ a # b /\ Edge(a, b) /\ Edge(b, a)
        /\ Held(a) = 0 /\ Held(b) = 0
        /\ Running(t, "gc_") /\ Top(t).pc = "destruct"
        /\ InList(Top(t).l, a) /\ InList(Top(t).l, b)

NoIncoming(b) == \A a \in Blocks : ~Edge(a, b)
\* C10: a block with no incoming edges is not destroyed while one of its n
\* strong references is held, and has been destroyed exactly once when the
\* drop of the last of them has returned.
C10_DestroyedByLastDrop ==
    \A b \in Blocks :
        NoIncoming(b) =>
            /\ Held(b) > 0 => destroyed[b] = 0 /\ ~expired(b)
            /\ (AllIdle /\ Held(b) = 0) => destroyed[b] = 1
\* the drop of the last reference to a block without incoming edges, after
\* an earlier operation of the thread, is about to destroy the block
C10_Witness ==
    \E t \in Threads, b \in Blocks :
        /\ NoIncoming(b) /\ Held(b) = 0 /\ ops[t] < MaxOps
        /\ Running(t, "gc_") /\ Top(t).pc = "clear" /\ Top(t).l = <<b>>
        /\ destroyed[b] = 0

\* the blocks of generation g that edges inside g lead to from the blocks
\* of g with a positive strong count
RECURSIVE ReachIn(_, _)
ReachIn(g, S) ==
    LET T == S \cup {b \in Blocks : generation_[b] = g /\ \E a \in S : Edge(a, b)}
    IN IF T = S THEN S ELSE ReachIn(g, T)
Referenced(g) == {b \in Blocks : generation_[b] = g /\ get_refs(store_refs_[b]) > 0}

\* C2: when a collection of generation 1 that ran alone has completed, every
\* block of the generation that is not reachable, through edges inside the
\* generation, from a block of the generation with a positive strong count
\* has been destroyed exactly once.
C2_UnreachableDestroyed ==
    stk[1] = <<>> =>
        \A b \in Blocks :
            (generation_[b] = 1 /\ b \notin ReachIn(1, Referenced(1))) => destroyed[b] = 1
\* the collection has found a cycle of two blocks unreachable, next to a
\* referenced block of the generation, and is about to destroy the cycle
C2_Witness ==
    \E a \in Blocks, b \in Blocks, c \in Blocks :
        /\ a # b /\ Edge(a, b) /\ Edge(b, a)
        /\ generation_[c] = 1 /\ get_refs(store_refs_[c]) > 0
        /\ Running(1, "gc_") /\ Top(1).g = 1 /\ Top(1).pc = "destruct"
        /\ InList(Top(1).l, a) /\ InList(Top(1).l, b) /\ ~InList(Top(1).l, c)

\* C6: a thread that holds a reference, as the one a hazard load returned,
\* holds it to an object that is not deallocated for as long as it holds it,
\* and no step of a load, reset, exchange or compare-exchange touches a
\* deallocated object.
C6_HazardSafety ==
    /\ ub = ""
    /\ \A t \in Threads, o \in Objs : owned[t][o] > 0 => ~deallocated[o]
\* a load has returned object 1 to a thread that now holds the only reference
\* to it: the source pointer was reset and no other thread is in an operation
C6_Witness ==
    \E t \in Threads :
        /\ Running(t, "hazard_ptr::load") /\ Top(t).pc = "return" /\ Top(t).actual = 1
        /\ owned[t][1] = 1 /\ refcnt[1] = 1 /\ ~deallocated[1] /\ ptr # 1
        /\ \A u \in Threads \ {t} : stk[u] = <<>>

\* the edge of block o is the only reference to block tt
OnlyRef(o, tt) ==
    /\ o # tt /\ Edge(o, tt) /\ Held(tt) = 0
    /\ \A a \in Blocks \ {o} : ~Edge(a, tt)
\* C11: a block that only an edge of another block refers to is not
\* destroyed while a strong reference to the owner of the edge is held; when
\* every operation has returned, a block that no thread holds and that is
\* not destroyed is the destination of an edge of another block that is not
\* destroyed (so the return of the drop of the last reference to an owner
\* without incoming edges leaves the owner and its target destroyed); and no
\* block is destroyed more than once.
C11_TargetSharesOwnersFate ==
    /\ \A o \in Blocks, tt \in Blocks :
          (OnlyRef(o, tt) /\ Held(o) > 0) => destroyed[tt] = 0 /\ ~expired(tt)
    /\ AllIdle =>
          \A tt \in Blocks :
              (Held(tt) = 0 /\ destroyed[tt] = 0)
                  => \E o \in Blocks \ {tt} : Edge(o, tt) /\ destroyed[o] = 0
    /\ \A b \in Blocks : destroyed[b] <= 1
\* the drop of the last reference to an owner has destroyed nothing yet: its
\* collection has cleared the edge, the release of the target has started a
\* collection of the target's generation, which is about to destroy the
\* target before the owner
C11_Witness ==
    \E t \in Threads, o \in Blocks, tt \in Blocks :
        /\ o # tt /\ Held(o) = 0 /\ Held(tt) = 0
        /\ destroyed[o] = 0 /\ destroyed[tt] = 0
        /\ Len(stk[t]) >= 3
        /\ Top(t).fn = "gc_" /\ Top(t).pc = "clear" /\ Top(t).l = <<tt>>
        /\ \E k \in 2..Len(stk[t]) :
              stk[t][k].fn = "gc_" /\ stk[t][k].pc \in {"destruct", "clear"}
                 /\ InList(stk[t][k].l, o)

\* the first operation of thread t, before which it dropped no pointer, is
\* an assignment of block a to a member of block b, a allocated before b,
\* and fix_ordering has returned
FirstAssign(t, a, b) ==
    /\ a < b /\ ops[t] = MaxOps - 1
    /\ \A x \in Blocks : destroyed[x] = 0 /\ get_refs(store_refs_[x]) = 1
    /\ Running(t, "vertex::reset") /\ Top(t).pc = "post_fix"
    /\ Top(t).o = b /\ Top(t).n = a
Unmerged ==
    /\ generation_ = [b \in Blocks |-> b]
    /\ controls_ = [g \in Gens |-> <<g>>]

\* C12 as stated: with A allocated before B, seq(G1) < seq(G2), an edge of B
\* to A needs no reordering: no merge, A and B stay in their generations,
\* and the sequence number of G2 stays what it was.
C12_EdgeToOlderAlreadyOrdered ==
    \A a \in Blocks, b \in Blocks :
        FirstAssign(1, a, b) => Unmerged /\ seq_[b] = FreshSeq(b)
\* C12: with A allocated before B, seq(G1) < seq(G2), an edge of B to A
\* violates the ordering invariant seq(owner) < seq(destination); it is
\* resolved without a merge: the moveable bit of G1 is cleared, the sequence
\* number of the moveable G2 is lowered to seq(G1) - 1, and A and B stay in
\* their two generations.
C12_EdgeToOlderLowersSequence ==
    \A a \in Blocks, b \in Blocks :
        FirstAssign(1, a, b) =>
            /\ ~(FreshSeq(b) < ClearMoveable(FreshSeq(a)))
            /\ Unmerged
            /\ seq_[a] = ClearMoveable(FreshSeq(a))
            /\ seq_[b] = seq_[a] - 1
            /\ order_invariant(b, a)
\* fix_ordering has returned to the assignment of the first block to a
\* member of the second
C12_Witness == FirstAssign(1, 1, 2)

\* the second operation of thread t, which dropped no pointer, is an
\* assignment of block b to a member of block a, a allocated before b, after
\* its first operation has set an edge of b to a; fix_ordering has returned
SecondAssign(t, a, b) ==
    /\ a < b /\ ops[t] = MaxOps - 2
    /\ \A x \in Blocks : destroyed[x] = 0 /\ ext[t][x] = 1
    /\ Edge(b, a)
    /\ Running(t, "vertex::reset") /\ Top(t).pc = "post_fix"
    /\ Top(t).o = a /\ Top(t).n = b

\* C13 as stated: the edge of A to B is resolved in one of two ways: the
\* generations stay apart with the sequence number of G2 below that of G1,
\* or the blocks of G1 have moved into G2.
C13_LowerG2OrMergeG1IntoG2 ==
    \A a \in Blocks, b \in Blocks :
        SecondAssign(1, a, b) =>
            \/ generation_[a] = a /\ generation_[b] = b /\ seq_[b] < seq_[a]
            \/ generation_[a] = b /\ generation_[b] = b /\ controls_[a] = <<>>
\* C13: with the edge of B to A set (which lowered seq(G2) to seq(G1) - 1),
\* an edge of A to B violates the ordering invariant seq(G1) < seq(G2); the
\* moveable bit of G2 is cleared, G1 is not moveable, and the violation is
\* resolved by a merge of G2 into G1: B moves into G1, G2 is left empty and
\* no sequence number is lowered.
C13_MergeG2IntoG1 ==
    \A a \in Blocks, b \in Blocks :
        SecondAssign(1, a, b) =>
            /\ generation_[a] = a /\ generation_[b] = a
            /\ controls_[b] = <<>>
            /\ InList(controls_[a], a) /\ InList(controls_[a], b)
            /\ seq_[a] = ClearMoveable(FreshSeq(a))
            /\ seq_[b] = seq_[a] - 2
\* fix_ordering has returned to the assignment of the second block to a
\* member of the first, which the second has an edge to
C13_Witness == SecondAssign(1, 1, 2)

\* thread t is in weak_acquire on block b and reads its strong word
Promoting(t, b) ==
    Running(t, "weak_acquire") /\ Top(t).pc = "cas" /\ Top(t).b = b
\* C14: a block that has been destroyed has the strong word (0, BLACK) and
\* no holder; and the step of weak_acquire that reads a BLACK word returns
\* (lock() hands out a null pointer) without an error, with the word, the
\* pointers the threads hold and everything else left as they were.
C14_PromoteBlackIsNull ==
    /\ [](\A b \in Blocks :
            destroyed[b] > 0 => store_refs_[b] = make_refcounter(0, black) /\ Held(b) = 0)
    /\ [][\A t \in Threads, b \in Blocks :
            (Promoting(t, b) /\ expired(b) /\ stk'[t] # stk[t])
                => /\ stk'[t] = Tail(stk[t])
                   /\ store_refs_'[b] = make_refcounter(0, black)
                   /\ ext' = ext /\ ub' = "" /\ cycle_vars' = cycle_vars]_vars
\* a promotion of a weak pointer to a destroyed block reads the strong word
C14_Witness ==
    \E t \in Threads, b \in Blocks : Promoting(t, b) /\ destroyed[b] = 1

\* thread t is at the head of vertex::reset(new_dst, ...) or vertex::reset()
\* of a vertex whose owner is expired
RetargetsExpired(t) ==
    /\ ub = "" /\ stk[t] # <<>>
    /\ Top(t).fn \in {"vertex::reset", "reset"} /\ Top(t).pc = "check"
    /\ expired(Top(t).o)
\* the word w with one reference less
OneLess(w) == make_refcounter(get_refs(w) - 1, get_color(w))
LoadsExpired(t) == Running(t, "load") /\ expired(Top(t).o)
SelfReferenceInConstructor(t) ==
    Running(t, "shared_from_this") /\ under_construction[Top(t).b]
\* C17: a block under construction keeps the strong word (1, WHITE) and no
\* thread holds a pointer to it; and shared_from_this of a block under
\* construction returns by raising bad_weak_ptr, with no strong word and no
\* held pointer changed.
C17_NoSelfReferenceUnderConstruction ==
    /\ [](\A b \in Blocks :
            under_construction[b] => store_refs_[b] = make_refcounter(1, white) /\ Held(b) = 0)
    /\ [][\A t \in Threads :
            (SelfReferenceInConstructor(t) /\ stk'[t] # stk[t])
                => /\ thrown'[t] = "bad_weak_ptr"
                   /\ stk'[t] = Tail(stk[t])
                   /\ store_refs_' = store_refs_ /\ ext' = ext
                   /\ under_construction' = under_construction]_vars
\* the constructor of a block saw its request for a pointer to itself fail
C17_Witness ==
    \E t \in Threads :
        /\ Running(t, "allocate_cycle") /\ Top(t).pc = "ctor"
        /\ under_construction[Top(t).b]
        /\ thrown[t] = "bad_weak_ptr"
        /\ store_refs_[Top(t).b] = make_refcounter(1, white)

\* thread t is at the last step of an allocate_cycle whose constructor failed
FailedAllocationReturns(t) ==
    Running(t, "allocate_cycle") /\ Top(t).pc = "release"
\* block b is gone without a trace: not published, in no generation's list,
\* deallocated, never destroyed as a payload, and held by no thread
RolledBack(b) ==
    /\ \A r \in published : r.bc # b
    /\ \A g \in Gens : ~InList(controls_[g], b)
    /\ heap[b] = "freed"
    /\ destroyed[b] = 0
    /\ Held(b) = 0
\* C18: when an allocate_cycle whose payload constructor failed returns, the
\* range of the block is not published, the block is linked in no
\* generation and deallocated, its payload was never destroyed by the
\* collector, and the exception the thread sees is the one the constructor
\* failed with; a deallocated block stays that way.
C18_FailedConstructionRollsBack ==
    /\ [][\A t \in Threads, b \in Blocks :
            (FailedAllocationReturns(t) /\ Top(t).b = b /\ stk'[t] # stk[t])
                => /\ stk'[t] = Tail(stk[t])
                   /\ RolledBack(b)'
                   /\ Top(t).err \in Failures \cup {"runtime_error"}
                   /\ thrown'[t] = Top(t).err]_vars
    /\ [](\A b \in Blocks : heap[b] = "freed" => RolledBack(b))
\* an allocate_cycle has returned with the failure of the constructor, which
\* had constructed its member pointers, while another block is published
C18_Witness ==
    \E t \in Threads, b \in Blocks :
        /\ Idle(t) /\ thrown[t] = "ctor_error" /\ heap[b] = "freed"
        /\ looked.bc = b /\ looked.addr = StoreAddr(b) + NV - 1
        /\ published # {}

\* some published range covers the query
Covered(map, addr, len) ==
    \E r \in map : r.addr <= addr /\ addr + len <= r.addr + r.len
\* C19 as stated: a publisher lookup returns a control block exactly when
\* some published range covers the queried range, and then the control block
\* of a range that covers it; otherwise it misses.
C19_LookupFindsContaining ==
    [][(published' = published /\ looked' # looked) =>
         /\ looked'.bc # Miss <=> Covered(published, looked'.addr, looked'.len)
         /\ looked'.bc # Miss =>
               \E r \in published : /\ r.bc = looked'.bc
                                    /\ r.addr <= looked'.addr
                                    /\ looked'.addr + looked'.len <= r.addr + r.len]_vars

\* thread t is in generation::gc of base_control::gc and has just set the
\* gc_flag_ of the generation: the request for a collection is made
Requests(t) ==
    Running(t, "base_control::gc") /\ Top(t).pc = "gc" /\ ~gc_flag_[Top(t).g]
\* C20: when a request for a collection is made with no hook installed, or
\* the hook that is handed the request throws, the next thing the thread
\* does is gc_ of that generation, called from the request, which goes on
\* only when gc_ has returned; no exception reaches the thread.
C20_CollectsWhenHookUnsetOrThrows ==
    [][\A t \in Threads :
         (Requests(t) /\ stk'[t] # stk[t]) =>
            LET f == Top(t)
                now == stk'[t][Len(stk'[t]) - Len(stk[t]) + 1]
            IN /\ now = [f EXCEPT !.pc = "while", !.hook = now.hook]
               /\ ~delay_gc_.fn => now.hook = "unset"
               /\ now.hook \in {"unset", "threw"} =>
                     /\ stk'[t] = <<gc_Frame(f.g), now>> \o Tail(stk[t])
                     /\ thrown' = thrown /\ ub' = ""
                     /\ gc_flag_'[f.g]]_vars
\* the hook threw without keeping the gc_operation, and the collection the
\* thread ran instead has destroyed a block before the request returned
C20_Witness ==
    \E t \in Threads, k \in 1 .. 2 :
        /\ Len(stk[t]) = k /\ stk[t][k].fn = "base_control::gc"
        /\ stk[t][k].pc = "while" /\ stk[t][k].hook = "threw"
        /\ delay_gc_.held = {}
        /\ destroyed[stk[t][k].b] = 1

\* thread t is in generation::gc of generation g and finds its gc_flag_ set
FindsPending(t, g) ==
    Running(t, "base_control::gc") /\ Top(t).pc = "gc" /\ Top(t).g = g /\ gc_flag_[g]
\* this step of thread t hands a gc_operation of generation g to the hook
HookInvoked(t, g) ==
    /\ Requests(t) /\ Top(t).g = g /\ stk'[t] # stk[t]
    /\ Head(stk'[t]).fn = "base_control::gc" /\ Head(stk'[t]).hook = "returned"
\* some thread holds the promise of a collection of generation g: it set
\* the gc_flag_ of g in a merge and has still to call gc_ of g, or to clear
\* the flag when the merge empties g
Promised(g) ==
    \E u \in Threads : \E k \in 1 .. Len(stk[u]) :
        LET fr == stk[u][k]
        IN \/ fr.fn = "merge_" /\ ((fr.src = g /\ fr.sgr) \/ (fr.rd = g /\ fr.rf))
           \/ fr.fn = "fix_ordering" /\ fr.dg = g /\ fr.dgr
           \/ k = 1 /\ fr.fn = "fix_ordering" /\ fr.pc = "merged" /\ fr.rd = g /\ fr.rf
\* C21: a request that finds the gc_flag_ of its generation set goes on to
\* its return without a call of the hook or of gc_ and changes nothing.  The
\* hook is called for a generation only by a request that set the flag; a
\* set flag is cleared only by gc_ of that generation when it takes mtx_, or
\* by a merge that empties the generation and holds the promise for it; the
\* flag stays set as long as a promise is held, so no hook is called for
\* the generation meanwhile: between two calls of the hook for a
\* generation, a gc_ of it has cleared the flag.
C21_OneRequestPerCollection ==
    [][\A t \in Threads, g \in Gens :
         /\ Promised(g) => gc_flag_[g]
         /\ (FindsPending(t, g) /\ stk'[t] # stk[t]) =>
               /\ stk'[t] = <<[Top(t) EXCEPT !.pc = "while"]>> \o Tail(stk[t])
               /\ delay_gc_' = delay_gc_ /\ cycle_vars' = cycle_vars
         /\ HookInvoked(t, g) =>
               /\ ~gc_flag_[g] /\ gc_flag_'[g] /\ g \in delay_gc_'.held
               /\ ~Promised(g)
         /\ (g \in delay_gc_'.held /\ g \notin delay_gc_.held) =>
               \E u \in Threads : HookInvoked(u, g)
         /\ (gc_flag_[g] /\ ~gc_flag_'[g]) =>
               \E u \in Threads :
                  \/ Running(u, "gc_") /\ Top(u).pc = "lock" /\ Top(u).g = g
                        /\ mtx_[g] = 0
                  \/ Running(u, "merge_") /\ Top(u).pc = "stage2" /\ Top(u).src = g
                        /\ Top(u).sgr /\ mtx_[g] = u]_vars
\* a request found the flag set by the request whose gc_operation the hook
\* still holds, and went on without a collection
C21_Witness ==
    \E t \in Threads :
        /\ Running(t, "base_control::gc") /\ Top(t).pc = "while" /\ Top(t).hook = ""
        /\ Top(t).g \in delay_gc_.held /\ gc_flag_[Top(t).g]
        /\ generation_[Top(t).b] = Top(t).g

\* --------------------------------------------- gc_operation called repeatedly
InitIdem ==
    /\ Fresh(1, [t \in Threads |-> [b \in Blocks |-> IF t = 1 THEN 1 ELSE 0]],
             [t \in Threads |-> IF t = 1 THEN DelayOps ELSE 0])
    /\ delay_gc_ = [fn |-> TRUE, held |-> {}, throws |-> FALSE]
    /\ NoAlloc
NextIdem ==
    \/ \E b \in Blocks : DropGptr(1, b)
    \/ \E o \in Blocks, v \in Verts, n \in Blocks : AssignGptr(1, o, v, n)
    \/ \E t \in Threads :
          \/ \E g \in Gens, n \in 1..MaxCalls : CallHeld(t, g, n)
          \/ gc_operation(t)
          \/ vertex_reset(t)
          \/ fix_ordering(t)
          \/ merge_(t)
          \/ merge0_(t)
          \/ Collector(t)
SpecIdem == InitIdem /\ [][NextIdem]_vars
\* the first call of the gc_operation thread t is calling has returned
CalledOnce(t) ==
    ub = "" /\ stk[t] # <<>> /\ stk[t][Len(stk[t])].fn = "gc_operation"
            /\ stk[t][Len(stk[t])].k >= 1
\* C22: once the first call of a gc_operation has returned, the further
\* calls of it run no gc_ and change no reference counter, colour,
\* generation, list of control blocks, edge, lock or flag: n calls in a row
\* leave what one call leaves.
C22_FurtherCallsDoNothing ==
    [][\A t \in Threads : (CalledOnce(t) /\ stk'[t] # stk[t]) =>
          /\ cycle_vars' = cycle_vars
          /\ Len(stk'[t]) <= 1]_vars
\* the first call destroyed a block and the gc_operation is in its second call
C22_Witness ==
    \E t \in Threads :
        /\ CalledOnce(t) /\ Top(t).pc = "call" /\ Top(t).k = 1 /\ Top(t).g_ = NULL
        /\ \E b \in Blocks : destroyed[b] # 0 /\ generation_[b] = 1

\* ------------------------------------- edges copied and moved during collections
\* the threads copy and move member pointers between the vertices of the
\* blocks they hold and drop their references; no thread takes a strong
\* reference from a member pointer or from a weak pointer
NextCopy ==
    \E t \in Threads :
        \/ \E b \in Blocks : DropGptr(t, b)
        \/ \E o \in Blocks, v \in Verts, so \in Blocks, sv \in Verts :
              \/ AssignMember(t, o, v, so, sv)
              \/ MoveMember(t, o, v, so, sv)
        \/ vertex_reset(t)
        \/ vertex_reset0(t)
        \/ fix_ordering(t)
        \/ Collector(t)
SpecCopy == InitGC /\ [][NextCopy]_vars

\* a collection of the generation of block b is in phase 3, where it turns
\* the RED blocks left outside the wavefront BLACK one after the other
InPhase3(b) ==
    \E t \in Threads : \E k \in 1 .. Len(stk[t]) :
        stk[t][k].fn = "gc_" /\ stk[t][k].pc = "phase3" /\ stk[t][k].g = generation_[b]
\* C23: no vertex owned by a block that is not BLACK has a BLACK block as
\* its destination; the RED blocks that phase 3 of a collection is turning
\* BLACK are taken as BLACK already.
C23_NoEdgeIntoBlack ==
    \A o \in Blocks, v \in Verts :
        (/\ ~expired(o) /\ dst_[o][v] # NULL
         /\ ~(get_color(store_refs_[o]) = red /\ InPhase3(o)))
            => ~expired(dst_[o][v])

\* C24: when a collection is in phase 3, every block it has still to turn
\* BLACK, the blocks left outside the wavefront, has the word (0, RED) and
\* is led to by no edges from a block a thread holds.
C24_Phase3OnlyUnreachableRed ==
    \A t \in Threads :
        (Running(t, "gc_") /\ Top(t).pc = "phase3") =>
            \A k \in Top(t).i .. Len(controls_[Top(t).g]) :
                LET b == controls_[Top(t).g][k]
                IN store_refs_[b] = make_refcounter(0, red) /\ ~Rooted(b)

\* the edges that hold a strong reference to block b: their owner is not
\* BLACK and is of another generation than b
CountedEdges(b) ==
    {ov \in Blocks \X Verts :
        /\ dst_[ov[1]][ov[2]] = b /\ ~expired(ov[1])
        /\ generation_[ov[1]] # generation_[b]}
\* no thread is inside a retarget of an edge, an ordering fix or a merge
NoRetargetInFlight ==
    \A t \in Threads : \A k \in 1 .. Len(stk[t]) :
        stk[t][k].fn \notin {"vertex::reset", "reset", "fix_ordering", "merge_"}
\* no collection is between its phase 3 and the end of its destruction
\* phase, where the edges of the blocks it turned BLACK still hold their
\* references
NoDestructionInFlight ==
    \A t \in Threads : \A k \in 1 .. Len(stk[t]) :
        ~(stk[t][k].fn = "gc_" /\ stk[t][k].pc \in {"phase3", "destruct", "clear"})
\* C25: when no retarget and no merge is in flight, and no collection is
\* releasing the edges of the blocks it turned BLACK, the strong count of
\* every block that is not BLACK is the number of strong references the
\* threads hold to it plus the number of edges to it whose owner is not
\* BLACK and of another generation.
C25_CountIsRefsPlusCrossEdges ==
    (NoRetargetInFlight /\ NoDestructionInFlight) =>
        \A b \in Blocks :
            ~expired(b) => get_refs(store_refs_[b]) = Held(b) + Cardinality(CountedEdges(b))

\* ------------------------------------ merges during the destruction phase
\* The blocks but the last are of generation 1, after earlier merges, with
\* edges among them that hold no reference; the last block is of a
\* generation of its own.  No generation is moveable any more.  Thread 1
\* holds a cycle_gptr to every block; the hook is installed.
InitRelease ==
    /\ \E e \in [1..(NB - 1) -> BOOLEAN] :
          dst_ = [b \in Blocks |-> [v \in Verts |->
                    IF b < NB /\ v = 1 /\ e[b] THEN (b % (NB - 1)) + 1 ELSE NULL]]
    /\ ext = [t \in Threads |-> [b \in Blocks |-> IF t = 1 THEN 1 ELSE 0]]
    /\ store_refs_ = [b \in Blocks |-> make_refcounter(1, white)]
    /\ generation_ = [b \in Blocks |-> IF b < NB THEN 1 ELSE NB]
    /\ seq_ = [g \in Gens |-> new_seq_state + 2 * (g - 1)]
    /\ controls_ = [g \in Gens |-> IF g = 1 THEN [k \in 1..(NB - 1) |-> k]
                                   ELSE IF g = NB THEN <<NB>> ELSE <<>>]
    /\ gc_flag_ = [g \in Gens |-> FALSE]
    /\ mtx_ = [g \in Gens |-> 0]
    /\ merge_mtx_ = [g \in Gens |-> [ex |-> 0, sh |-> {}]]
    /\ red_promotion_mtx_ = [g \in Gens |-> [ex |-> 0, sh |-> {}]]
    /\ destroyed = [b \in Blocks |-> 0]
    /\ stk = [t \in Threads |-> <<>>]
    /\ ops = [t \in Threads |-> IF t = 1 THEN ReleaseOps ELSE 0]
    /\ ub = ""
    /\ NoHazard
    /\ delay_gc_ = [fn |-> TRUE, held |-> {}, throws |-> FALSE]
    /\ NoAlloc
SpecRelease == InitRelease /\ [][NextDelay]_vars
\* thread t is in the destruction phase of a collection, at an edge with
\* destination d
ClearsEdgeTo(t, d) ==
    /\ Running(t, "gc_") /\ Top(t).pc = "destruct"
    /\ dst_[Top(t).l[Top(t).i]][Top(t).e] = d
\* C26: the destruction phase of a collection releases the destination of
\* an edge it clears only if the edge held a reference: the count it takes
\* one from is above the number of references the threads hold.  The
\* destination of an edge inside the collected generation keeps its count,
\* also when it has been merged into another generation since.
C26_ReleasesOnlyCountedEdges ==
    [][\A t \in Threads, d \in Blocks :
          (ClearsEdgeTo(t, d) /\ stk'[t] # stk[t] /\ store_refs_'[d] # store_refs_[d])
              => get_refs(store_refs_[d]) > Held(d)]_vars

\* this step is base_control::acquire by thread t on block d, whose word is
\* RED: the acquire of cycle_gptr(const cycle_member_ptr&) makes it GREY
StrongRedPromotion(t, d) ==
    /\ Running(t, "load") /\ Top(t).d = d /\ stk'[t] # stk[t]
    /\ get_color(store_refs_[d]) = red
    /\ store_refs_'[d] # store_refs_[d]
\* C27: no strong acquire finds a block RED while a collection of the
\* block's generation is in phase 2 or 3 (it holds red_promotion_mtx_
\* exclusively), so that every block a strong acquire turns from RED to GREY
\* is still moved into the wavefront by gc_phase2_mark_.
C27_NoStrongRedPromotionAfterPhase1 ==
    [][\A t \in Threads, d \in Blocks :
          StrongRedPromotion(t, d) => red_promotion_mtx_[generation_[d]].ex = 0]_vars

\* ------------------------------------------- weak promotions and merges
\* The blocks and generations of InitRelease without a hook: thread 1 holds
\* a cycle_gptr to every block and sets and resets edges, thread 2 holds
\* weak pointers and locks one of them.
InitWeak ==
    /\ \E e \in [1..(NB - 1) -> BOOLEAN] :
          dst_ = [b \in Blocks |-> [v \in Verts |->
                    IF b < NB /\ v = 1 /\ e[b] THEN (b % (NB - 1)) + 1 ELSE NULL]]
    /\ ext = [t \in Threads |-> [b \in Blocks |-> IF t = 1 THEN 1 ELSE 0]]
    /\ store_refs_ = [b \in Blocks |-> make_refcounter(1, white)]
    /\ generation_ = [b \in Blocks |-> IF b < NB THEN 1 ELSE NB]
    /\ seq_ = [g \in Gens |-> new_seq_state + 2 * (g - 1)]
    /\ controls_ = [g \in Gens |-> IF g = 1 THEN [k \in 1..(NB - 1) |-> k]
                                   ELSE IF g = NB THEN <<NB>> ELSE <<>>]
    /\ gc_flag_ = [g \in Gens |-> FALSE]
    /\ mtx_ = [g \in Gens |-> 0]
    /\ merge_mtx_ = [g \in Gens |-> [ex |-> 0, sh |-> {}]]
    /\ red_promotion_mtx_ = [g \in Gens |-> [ex |-> 0, sh |-> {}]]
    /\ destroyed = [b \in Blocks |-> 0]
    /\ stk = [t \in Threads |-> <<>>]
    /\ ops = [t \in Threads |-> IF t = 1 THEN WeakOps ELSE 1]
    /\ ub = ""
    /\ NoHazard
    /\ delay_gc_ = [fn |-> FALSE, held |-> {}, throws |-> FALSE]
    /\ NoAlloc
NextWeak ==
    \/ \E b \in Blocks : DropGptr(1, b) \/ LockWeak(2, b)
    \/ \E o \in Blocks, v \in Verts :
          \/ ResetMember(1, o, v)
          \/ \E n \in Blocks : AssignGptr(1, o, v, n)
    \/ \E t \in Threads :
          \/ weak_acquire(t)
          \/ vertex_reset(t)
          \/ vertex_reset0(t)
          \/ fix_ordering(t)
          \/ merge_(t)
          \/ merge0_(t)
          \/ Collector(t)
SpecWeak == InitWeak /\ [][NextWeak]_vars
\* this step is the compare-exchange of weak_acquire by thread t that turns
\* block b from RED to GREY
WeakRedPromotion(t, b) ==
    /\ Running(t, "weak_acquire") /\ Top(t).b = b /\ stk'[t] # stk[t]
    /\ get_color(store_refs_[b]) = red
    /\ store_refs_'[b] # store_refs_[b]
\* C28: while a collection holds the red_promotion_mtx_ of its generation
\* exclusively (phases 2 and 3), no promotion of a weak pointer turns a
\* block of that generation from RED to GREY, also when the block has
\* changed generation since the promotion locked the mutex.
C28_NoWeakRedPromotionInPhase2 ==
    [][\A t \in Threads, b \in Blocks :
          WeakRedPromotion(t, b) => red_promotion_mtx_[generation_[b]].ex = 0]_vars

\* ------------------------------------------------ requests are not lost
\* Block 1 is of generation 1; the other blocks are of the generation of
\* the last block, after earlier merges, and form a ring of edges that hold
\* no reference; a member of block 1 points at the last block and holds a
\* reference to it.  No generation is moveable.  Thread 1 holds a
\* cycle_gptr to every block, assigns to a member and drops its pointers;
\* the hook is installed and the threads call the gc_operations handed to
\* it.  Scheduling is fair: every thread that can take a step is scheduled
\* again, and the hook calls every gc_operation it was handed.
InitRequest ==
    /\ dst_ = [b \in Blocks |-> [v \in Verts |->
                 IF v # 1 THEN NULL
                 ELSE IF b = 1 THEN NB
                 ELSE IF b = NB THEN 2 ELSE b + 1]]
    /\ ext = [t \in Threads |-> [b \in Blocks |-> IF t = 1 THEN 1 ELSE 0]]
    /\ store_refs_ = [b \in Blocks |-> make_refcounter(IF b = NB THEN 2 ELSE 1, white)]
    /\ generation_ = [b \in Blocks |-> IF b = 1 THEN 1 ELSE NB]
    /\ seq_ = [g \in Gens |-> new_seq_state + 2 * (g - 1)]
    /\ controls_ = [g \in Gens |-> IF g = 1 THEN <<1>>
                                   ELSE IF g = NB THEN [k \in 1..(NB - 1) |-> k + 1]
                                   ELSE <<>>]
    /\ gc_flag_ = [g \in Gens |-> FALSE]
    /\ mtx_ = [g \in Gens |-> 0]
    /\ merge_mtx_ = [g \in Gens |-> [ex |-> 0, sh |-> {}]]
    /\ red_promotion_mtx_ = [g \in Gens |-> [ex |-> 0, sh |-> {}]]
    /\ destroyed = [b \in Blocks |-> 0]
    /\ stk = [t \in Threads |-> <<>>]
    /\ ops = [t \in Threads |-> IF t = 1 THEN RequestOps ELSE 0]
    /\ ub = ""
    /\ NoHazard
    /\ delay_gc_ = [fn |-> TRUE, held |-> {}, throws |-> FALSE]
    /\ NoAlloc
StepDelay(t) ==
    \/ \E g \in Gens : CallHeld(t, g, 1)
    \/ gc_operation(t)
    \/ vertex_reset(t)
    \/ fix_ordering(t)
    \/ merge_(t)
    \/ merge0_(t)
    \/ Collector(t)
FairRequest ==
    InitRequest /\ [][NextDelay]_vars /\ \A t \in Threads : WF_vars(StepDelay(t))
\* a release by thread t has taken the strong count of block b from 1 to 0
\* and calls base_control::gc
ReleasedLast(t, b) ==
    /\ Running(t, "base_control::gc") /\ Top(t).pc = "load" /\ Top(t).b = b
    /\ get_refs(store_refs_[b]) = 0 /\ ~expired(b)
\* a collection of the generation of block b has taken mtx_ and cleared the
\* flag, and is at the head of gc_mark_
MarkBegins(b) ==
    \E u \in Threads :
        Running(u, "gc_") /\ Top(u).pc = "mark" /\ Top(u).i = 1
            /\ Top(u).g = generation_[b]
\* C29: after every release that takes a strong count from 1 to 0 and asks
\* for a collection, a collection of the generation the block is in then
\* begins its mark phase: run by the releasing thread, by a thread that had
\* set the flag and not yet started, or by the call of the gc_operation
\* handed to the hook.  (The releasing thread may be slow to go on: a mark
\* phase that began after the release may by then have found the block
\* unreachable.)
C29_ReleaseLeadsToMark ==
    \A t \in Threads, b \in Blocks :
        ReleasedLast(t, b) ~> (MarkBegins(b) \/ expired(b))
\* block 1 was merged into the generation of the last block and then
\* released for the last time, and is at the head of the mark phase of a
\* collection of that generation
C29_Witness ==
    /\ generation_[1] = NB
    /\ get_refs(store_refs_[1]) = 0 /\ ~expired(1) /\ Held(1) = 0
    /\ MarkBegins(1)

\* the merge called by thread t has returned: the blocks of the merged
\* generation are of generation g, whose flag is set
Merged(t, g) ==
    /\ Running(t, "fix_ordering") /\ Top(t).pc = "merged" /\ Top(t).rd = g
    /\ gc_flag_[g] /\ controls_[g] # <<>>
\* C30: after a merge, a collection of the generation the blocks were moved
\* into begins its mark phase with no further release, whether a flag was
\* set when the merge began or the merge took the count of a block to 0
\* (unless that generation is merged into another one first, which is the
\* same case again).
C30_MergeLeadsToMark ==
    \A t \in Threads, g \in Gens :
        Merged(t, g) ~> ((\E u \in Threads : Running(u, "gc_") /\ Top(u).pc = "mark"
                                /\ Top(u).i = 1 /\ Top(u).g = g)
                         \/ controls_[g] = <<>>)
\* the merge took the count of the last block, which no thread holds, to 0
\* without a collection, and the collection of the generation that
\* fix_ordering calls after the merge is at the head of its mark phase
C30_Witness ==
    \E t \in Threads :
        /\ Running(t, "gc_") /\ Top(t).pc = "mark" /\ Top(t).i = 1 /\ Top(t).g = NB
        /\ Len(stk[t]) >= 2 /\ stk[t][2].fn = "fix_ordering"
        /\ generation_[1] = NB /\ dst_[1][1] = NB
        /\ get_refs(store_refs_[NB]) = 0 /\ Held(NB) = 0 /\ ~expired(NB)

\* C31: a generation's sequence number never increases: no step writes a
\* larger value over it, also when several threads lower the same moveable
\* generation and a compare-exchange is retried.
C31_SequenceNeverIncreases ==
    [][\A g \in Gens : seq_'[g] <= seq_[g]]_vars

\* C32: once the moveable bit of a generation's sequence number has been
\* cleared, the sequence number never changes again, whatever threads are
\* in the lowering loop for that generation.
C32_FixedOnceNotMoveable ==
    [][\A g \in Gens : seq_[g] % 2 = 0 => seq_'[g] = seq_[g]]_vars
\* a thread is in the lowering loop of generation g with a moveable
\* sequence number it loaded earlier, and the moveable bit of g has been
\* cleared since: its compare-exchange is about to fail
C32_Witness ==
    \E t \in Threads, g \in Gens :
        /\ Running(t, "fix_ordering") /\ Top(t).pc = "lower" /\ Top(t).sg = g
        /\ Top(t).ss % 2 = 1 /\ Top(t).ds > 3
        /\ seq_[g] % 2 = 0 /\ seq_[g] # Top(t).ss

\* ------------------------------------------------- the unowned generation
\* Block 1 is the control block of an unowned member pointer (a
\* cycle_member_ptr built with unowned_cycle): it is of the generation of
\* sequence number 0, holds no payload and is the target of no pointer.
unowned == 1
\* The other blocks are each in a generation of its own, whose sequence
\* numbers earlier lowerings have brought close to the floor (two
\* generations lowered against the same destination have the same sequence
\* number); every thread
\* can reach the unowned member pointer and holds a cycle_gptr to every
\* other block.
InitUnowned ==
    /\ \E base \in {2, 4}, gap \in {0, 1}, mv \in [Gens \ {unowned} -> {0, 1}] :
          seq_ = [g \in Gens |-> IF g = unowned THEN 0
                                 ELSE base + 2 * gap * (g - 2) + mv[g]]
    /\ store_refs_ = [b \in Blocks |->
          make_refcounter(IF b = unowned THEN 1 ELSE NT, white)]
    /\ generation_ = [b \in Blocks |-> b]
    /\ controls_ = [g \in Gens |-> <<g>>]
    /\ gc_flag_ = [g \in Gens |-> FALSE]
    /\ mtx_ = [g \in Gens |-> 0]
    /\ merge_mtx_ = [g \in Gens |-> [ex |-> 0, sh |-> {}]]
    /\ red_promotion_mtx_ = [g \in Gens |-> [ex |-> 0, sh |-> {}]]
    /\ dst_ = [b \in Blocks |-> [v \in Verts |-> NULL]]
    /\ destroyed = [b \in Blocks |-> 0]
    /\ ext = [t \in Threads |-> [b \in Blocks |-> 1]]
    /\ stk = [t \in Threads |-> <<>>]
    /\ ops = [t \in Threads |-> IF t = 1 THEN OrderOps ELSE 1]
    /\ ub = ""
    /\ NoHazard
    /\ delay_gc_ = [fn |-> FALSE, held |-> {}, throws |-> FALSE]
    /\ NoAlloc
StepUnowned(t) ==
    \/ \E o \in Blocks, n \in Blocks \ {unowned} : AssignGptr(t, o, t, n)
    \/ \E b \in Blocks \ {unowned} :
          (\A u \in Threads : ops[u] = 0 /\ stk[u] = <<>>) /\ DropGptr(t, b)
    \/ vertex_reset(t)
    \/ fix_ordering(t)
    \/ merge_(t)
    \/ merge0_(t)
    \/ Collector(t)
NextUnowned == \E t \in Threads : StepUnowned(t)
SpecUnowned == InitUnowned /\ [][NextUnowned]_vars

\* C33: no sequence number but that of the unowned generation is ever below
\* 2 once its moveable bit is masked (so a lowering, which writes an odd
\* value, never writes one below 3), every generation stays ordered
\* strictly after the unowned generation, and the unowned generation is
\* neither source nor destination of a merge.
C33_UnownedGenerationNeverMerged ==
    /\ seq_[unowned] = 0
    /\ \A g \in Gens \ {unowned} :
          /\ ClearMoveable(seq_[g]) >= 2
          /\ order_invariant(unowned, g)
    /\ \A t \in Threads : \A k \in 1..Len(stk[t]) :
          stk[t][k].fn = "merge_" => stk[t][k].src # unowned /\ stk[t][k].rd # unowned
    /\ controls_[unowned] = <<unowned>> /\ generation_[unowned] = unowned
\* the generation of the last block was lowered to 3 against a destination
\* of sequence number 4, had its moveable bit cleared and is now the source
\* of a merge, because the floor allows no lowering against it; the unowned
\* member pointer points at a block
C33_Witness ==
    /\ \E v \in Verts : dst_[unowned][v] # NULL
    /\ \E t \in Threads :
          /\ Running(t, "merge_") /\ Top(t).src = NB /\ seq_[NB] = 2
          /\ seq_[2] = 4

\* C34: every invocation of merge_ -- from fix_ordering or from the cascade
\* -- is on two distinct generations where the source precedes the
\* destination: order_invariant(source, destination) holds, or the sequence
\* numbers are equal and the source has the lower address.
C34_MergeArgumentsOrdered ==
    [][\A t \in Threads :
          (/\ Len(stk'[t]) = Len(stk[t]) + 1
           /\ stk'[t][1].fn = "merge_")
          => LET src == stk'[t][1].src
                 dst == stk'[t][1].rd
             IN /\ src # dst
                /\ \/ seq_[src] < ClearMoveable(seq_[dst])
                   \/ seq_[src] = seq_[dst] /\ src < dst]_vars

\* fix_ordering, called by thread t for the owner o and the destination n,
\* returns the lock on generation g in this step
Returns(t, o, n, g) ==
    /\ Running(t, "fix_ordering") /\ Top(t).pc = "end" /\ ~Top(t).dgr
    /\ stk'[t] # stk[t]
    /\ Top(t).o = o /\ Top(t).n = n /\ Top(t).sg = g
\* C35: when fix_ordering returns, the caller holds in shared mode the
\* merge mutex of the generation that contains the owner block, and the
\* owner and the destination block are in the same generation or satisfy
\* the ordering invariant.
C35_FixOrderingPostcondition ==
    [][\A t \in Threads, o \in Blocks, n \in Blocks, g \in Gens :
          Returns(t, o, n, g) =>
              /\ g = generation_[o]
              /\ t \in merge_mtx_[g].sh /\ merge_mtx_[g].ex = 0
              /\ \/ generation_[o] = generation_[n]
                 \/ order_invariant(generation_[o], generation_[n])]_vars

\* thread t holds the merge mutex (in either mode) or the control-list
\* mutex of generation x
HoldsLock(t, x) ==
    merge_mtx_[x].ex = t \/ t \in merge_mtx_[x].sh \/ mtx_[x] = t
\* the generation whose merge mutex or control-list mutex the next step of
\* thread t acquires, NULL if that step acquires neither
Acquiring(t) ==
    IF stk[t] = <<>> THEN NULL
    ELSE LET f == Top(t)
         IN IF f.fn = "gc_" /\ f.pc = "lock" THEN f.g
            ELSE IF f.fn \in {"vertex::reset", "reset"} /\ f.pc = "lock" THEN f.g
            ELSE IF f.fn = "fix_ordering" /\ f.pc \in {"lock", "lock_again", "relock"}
                 THEN f.sg
            ELSE IF f.fn = "merge_" /\ f.pc \in {"lock_merge", "lock_mtx"} THEN f.src
            ELSE IF f.fn = "merge_" /\ f.pc = "lock_dst" THEN f.rd
            ELSE NULL
\* generation x precedes generation y in the total order
Precedes(x, y) == seq_[x] < seq_[y] \/ (seq_[x] = seq_[y] /\ x < y)
\* C36: a thread that holds a merge mutex or a control-list mutex of
\* generation x and is about to acquire one of a different generation y
\* does so with x before y in the total order (lower sequence number, ties
\* broken by lower address).
C36_LockOrder ==
    \A t \in Threads, x \in Gens, y \in Gens :
        (x # y /\ HoldsLock(t, x) /\ Acquiring(t) = y) => Precedes(x, y)

\* thread t is inside a collection (generation::gc_) of generation g
Collecting(t, g) ==
    \E k \in 1..Len(stk[t]) : stk[t][k].fn = "gc_" /\ stk[t][k].g = g
\* C37: no thread is inside a collection of any generation while it holds a
\* merge mutex, in shared or in exclusive mode.
C37_NoCollectionUnderMergeMutex ==
    \A t \in Threads, g \in Gens, x \in Gens :
        Collecting(t, g) => merge_mtx_[x].ex # t /\ t \notin merge_mtx_[x].sh

\* the next step of thread t is of the destruction phase of a collection:
\* it clears an edge of an unreachable block, releasing its destination if
\* that is of another generation, or runs a payload destructor
Destructing(t) ==
    Running(t, "gc_") /\ Top(t).pc \in {"destruct", "clear"}
\* C38: whenever a thread is about to clear an edge of an unreachable block
\* or to run a payload destructor, it holds the control-list mutex of no
\* generation and the red-promotion mutex of no generation, in any mode.
C38_DestructionHoldsNoCollectorLock ==
    \A t \in Threads, g \in Gens :
        Destructing(t) =>
            /\ mtx_[g] # t
            /\ red_promotion_mtx_[g].ex # t /\ t \notin red_promotion_mtx_[g].sh
\* the release of a cross-generation edge in a destruction phase has started
\* a collection of another generation, which is in its own destruction
\* phase
C38_Witness ==
    \E t \in Threads :
        /\ Destructing(t)
        /\ \E k \in 2..Len(stk[t]) :
              /\ stk[t][k].fn = "gc_" /\ stk[t][k].pc \in {"destruct", "clear"}
              /\ stk[t][k].g # Top(t).g

\* ------------------------------------------------- a shared hazard slot
\* Thread 1 is inside hazard_ptr::load: its hazard was allocated slot 1 and
\* it has not read the source pointer yet.  The other threads hold a
\* reference to each object and run hazard operations; allocate_ hands out
\* the slots round robin, so that one of them is assigned slot 1 as well.
InitSlot ==
    /\ ptr = 1
    /\ ptr_set_impl_ = [k \in Slots |-> NULL]
    /\ refcnt = [o \in Objs |-> IF o = 1 THEN NT ELSE IF o = 2 THEN NT - 1 ELSE 0]
    /\ deallocated = [o \in Objs |-> o > 2]
    /\ owned = [t \in Threads |-> [o \in Objs |-> IF t # 1 /\ o <= 2 THEN 1 ELSE 0]]
    /\ alloc_seq_ \in 0..(NSlots - 1)
    /\ stk = [t \in Threads |->
                 IF t = 1 THEN <<[fn |-> "hazard_ptr::load", pc |-> "load",
                                  d |-> 1, actual |-> NULL]>>
                 ELSE <<>>]
    /\ ops = [t \in Threads |-> IF t = 1 THEN 0 ELSE HazOps]
    /\ ub = ""
    /\ store_refs_ = [b \in Blocks |-> make_refcounter(0, white)]
    /\ generation_ = [b \in Blocks |-> b]
    /\ seq_ = [g \in Gens |-> new_seq_state]
    /\ controls_ = [g \in Gens |-> <<>>]
    /\ gc_flag_ = [g \in Gens |-> FALSE]
    /\ mtx_ = [g \in Gens |-> 0]
    /\ merge_mtx_ = [g \in Gens |-> [ex |-> 0, sh |-> {}]]
    /\ red_promotion_mtx_ = [g \in Gens |-> [ex |-> 0, sh |-> {}]]
    /\ dst_ = [b \in Blocks |-> [v \in Verts |-> NULL]]
    /\ destroyed = [b \in Blocks |-> 0]
    /\ ext = [t \in Threads |-> [b \in Blocks |-> 0]]
    /\ delay_gc_ = [fn |-> FALSE, held |-> {}, throws |-> FALSE]
    /\ NoAlloc
SpecSlot == InitSlot /\ [][NextHazard]_vars

\* the references to object o that are accounted for: the one of the
\* source pointer and those the threads hold
Accounted(o) ==
    (IF ptr = o THEN 1 ELSE 0) + SumOver([t \in Threads |-> owned[t][o]], Threads)
\* reader t found its intent cleared and is about to drop a reference
Drops(t, o, pc) ==
    Running(t, "hazard::operator()") /\ Top(t).pc = pc /\ Top(t).target = o
\* C39: once the hazard operations have all completed, the reference count
\* of every object equals the number of references that are accounted for
\* (its initial count, plus one for each reference returned to a reader,
\* minus one for each reference a writer gave up): no donated reference is
\* lost or consumed twice, an object without references is deallocated, and
\* no intent is left in a slot.  A reader drops a reference only when it
\* was given one: the count then exceeds the references accounted for, by
\* the donated one and, after its own acquire, by that one too.
C39_HazardReferencesConserved ==
    /\ ub = ""
    /\ (\A t \in Threads : stk[t] = <<>>) =>
          /\ \A o \in Objs :
                /\ deallocated[o] <=> Accounted(o) = 0
                /\ ~deallocated[o] => refcnt[o] = Accounted(o)
          /\ \A k \in Slots : ptr_set_impl_[k] = NULL
    /\ \A t \in Threads, o \in Objs :
          /\ Drops(t, o, "aba_release") => refcnt[o] >= Accounted(o) + 1
          /\ Drops(t, o, "clear_release") => refcnt[o] >= Accounted(o) + 2
\* thread 1 has published its intent for object 1, a writer has donated a
\* reference to it, a second reader was assigned the same slot and has
\* published an intent for the same object, which thread 1 has cleared
\* taking it for its own: the second reader is about to drop the reference
\* that was donated to thread 1
C39_Witness ==
    \E t \in Threads \ {1} :
        /\ Drops(t, 1, "clear_release") /\ Top(t).d = 1
        /\ owned[1][1] = 1

\* reader u has published its intent in slot k and has not cleared it yet
Published(u, k) ==
    /\ Running(u, "hazard::operator()")
    /\ Top(u).d = k
    /\ Top(u).pc \in {"validate", "cancel", "acquire", "clear"}
    /\ ptr_set_impl_[k] = Top(u).target
\* reader t is in its publish loop on slot k, and the compare-exchange of
\* the loop fails for as long as no other thread clears the slot
Waits(t, k) ==
    /\ Running(t, "hazard::operator()")
    /\ Top(t).d = k
    /\ Top(t).pc = "publish"
    /\ Top(t).target # NULL
    /\ ptr_set_impl_[k] # NULL
\* C40: a hazard operation is never prevented from completing by a thread
\* that is suspended inside its own hazard operation: no reader waits in
\* its publish loop for a slot that holds the published intent of another
\* reader.
C40_HazardNeverBlocked ==
    \A t \in Threads, u \in Threads, k \in Slots :
        t # u => ~(Waits(t, k) /\ Published(u, k))

====
